---- MODULE Spec2Model ----
(***************************************************************************)
(* A model of the m3u8 segment downloader: the bounded-parallel download   *)
(* of Downloader.DownloadSegments (one goroutine per segment, a counting   *)
(* semaphore, a buffered result channel, a collector), the memory/disk     *)
(* storage switch of checkAndSwitchToDisk, the retry loop of               *)
(* DownloadContentWithRetry, DecryptSegment, MergeSegments and             *)
(* MergeSegmentsWithInit, and the part of main that drives them for the    *)
(* video and the audio track.                                              *)
(*                                                                         *)
(* Segment locators are identified by their position 0..N-1.  A byte       *)
(* string is kept as a chunk [seg, len, form]: the bytes that came from    *)
(* locator seg, their length, and whether they are as fetched ("raw") or   *)
(* decrypted ("plain").  A file is a sequence of chunks.                   *)
(***************************************************************************)
EXTENDS Integers, Sequences, FiniteSets, TLC

\* ------------------------------------------------------------------ bounds
MaxSegs == 2
MaxRetries == 3
MaxLines == 3

\* ------------------------------------------------------- program constants
MemoryThresholdMB == 50
MemoryThreshold == MemoryThresholdMB * 1024 * 1024
StatusOK == 200
BlockSize == 16

\* key lengths aes.NewCipher accepts
AESKeySizes == {16, 24, 32}

MiB == 1024 * 1024

\* Lengths a fetched segment body may have: a small body that is not
\* block-aligned, and one of exactly the threshold (so one such segment
\* leaves the total at the threshold and any further segment crosses it).
SegSizes == {8, 50 * MiB}
ConcurrencyLimits == 0..2
\* -retries values a run is given: negative (no attempt is ever made) and
\* one retry; DownloadContentWithRetry itself is checked for all of
\* -1..MaxRetries under SpecRetry
RetryLimits == {-1, 1}
\* An unencrypted transport-stream playlist without a separate audio track.
\* Key is the key's length, KeyIV the IV string (<<>>: ""), InitSegment and
\* AudioInit are locators ("": none), AudioSegments the audio track's locators.
PlainPlaylist ==
    [Encrypted |-> FALSE, Key |-> 0, KeyIV |-> <<>>,
     IsFragmented |-> FALSE, InitSegment |-> "", HasAudio |-> FALSE,
     AudioInit |-> "", AudioSegments |-> <<>>]
\* The playlists a download run is given: unencrypted, encrypted with a
\* 16-byte key, and encrypted with the key left unset (key acquisition failed).
Playlists ==
    { PlainPlaylist,
      [PlainPlaylist EXCEPT !.Encrypted = TRUE, !.Key = 16],
      [PlainPlaylist EXCEPT !.Encrypted = TRUE] }
\* The directories os.MkdirTemp creates for the video and the audio downloader
TempDirName == "m3u8-segments-1"
AudioTempDirName == "m3u8-segments-2"

\* nil / "" / zero values of the Go types
Nil == [nil |-> TRUE]
NoErr == [msg |-> "nil"]
NoPath == [dir |-> "", name |-> -1]
NoDir == ""
NoFile == [exists |-> FALSE, content |-> <<>>]
\* An IV string is the sequence of its characters, a hex digit given by its
\* value 0..15 and any other character by NotHex; "" is the empty sequence
NotHex == 16
NoIV == <<>>
NoHolder == [holder |-> -1, fn |-> ""]

VARIABLES
    segments,        \* the locators handed to DownloadSegments: <<0, .., N-1>>
    maxConcurrent,   \* Downloader.maxConcurrent
    maxRetries,      \* Downloader.maxRetries
    playlist,        \* Downloader.playlist: [Encrypted, Key (its length), KeyIV]
    progress,        \* Downloader.progress
    totalSize,       \* Downloader.totalSize
    useDiskStorage,  \* Downloader.useDiskStorage
    tempDir,         \* Downloader.tempDir
    launched,        \* the for loop's position: goroutines started so far
    pc,              \* each goroutine's position
    data,            \* each goroutine's local data
    segmentData,     \* each goroutine's local record (or the record it sends)
    semaphore,       \* number of tokens in the semaphore channel
    wg,              \* the WaitGroup's counter
    resultChan,      \* the buffered result channel's contents
    closed,          \* resultChan has been closed
    results,         \* DownloadSegments' results slice
    errors,          \* DownloadSegments' errors slice
    mainPc,          \* position of main / DownloadSegments' own goroutine
    ret,             \* what DownloadSegments returned
    dirs,            \* file system: the temp directories that exist
    files,           \* file system: temp files, path -> contents
    output,          \* file system: the destination file (NoFile or its chunks)
    mergeErr,        \* what MergeSegments / MergeSegmentsWithInit returned
    audioDownloader, \* main's audioDownloader: Nil or its fields
    audioRet,        \* what the audio DownloadSegments returned
    audioOutput,     \* file system: the audio track's destination file
    callNet,         \* a call of DownloadContentWithRetry: the responses the
                     \* network gives to its successive requests
    callRetries,     \* ... its maxRetries argument
    callArgs,        \* a call of DecryptSegment: its arguments
    call,            \* ... and what it returned and did, once made
    mu,              \* Downloader.mu: the goroutine holding it and the method
                     \* it locked it in (followed only under SpecLock)
    stdout,          \* the progress line each goroutine printed (SpecLock)
    initRequests     \* network: requests made for initialization segments

cfgVars == <<segments, maxConcurrent, maxRetries, playlist>>
dlVars == <<progress, totalSize, useDiskStorage, tempDir>>
taskVars == <<pc, data, segmentData>>
syncVars == <<semaphore, wg, resultChan, closed>>
collVars == <<results, errors, ret>>
fsVars == <<dirs, files, output>>
fnVars == <<callNet, callRetries, callArgs, call>>
auVars == <<audioDownloader, audioRet, audioOutput>>
lockVars == <<mu, stdout>>
netVars == <<initRequests>>
vars == <<cfgVars, dlVars, taskVars, syncVars, collVars, fsVars, launched,
          mainPc, mergeErr, fnVars, auVars, lockVars, netVars>>

N == Len(segments)
Indices == 0..(N - 1)

\* the slice index i lives at position i + 1 of a sequence
At(seq, i) == seq[i + 1]

\* SegmentData's zero value, and the records the goroutines build
ZeroSegmentData == [Index |-> 0, Data |-> Nil, FilePath |-> NoPath, Error |-> NoErr]
ErrorRecord(index, err) == [ZeroSegmentData EXCEPT !.Index = index, !.Error = err]

Chunk(seg, len) == [seg |-> seg, len |-> len, form |-> "raw"]

\* ------------------------------------------------------------ the network
\* One response of the server to one GET: the transport may fail
\* (httpClient.Do), else there is a status code, and reading the body may fail.
Response(doErr, status, readErr, body) ==
    [doErr |-> doErr, status |-> status, readErr |-> readErr, body |-> body]

\* DownloadContent on the response the network gives to this request
DownloadContent(resp) ==
    IF resp.doErr THEN [data |-> Nil, err |-> [msg |-> "transport"]]
    ELSE IF resp.status # StatusOK
         THEN [data |-> Nil, err |-> [msg |-> "status code", code |-> resp.status]]
    ELSE IF resp.readErr THEN [data |-> Nil, err |-> [msg |-> "read body"]]
    ELSE [data |-> resp.body, err |-> NoErr]

\* Faulty variant: the wait doubles with every retry
Backoff_Exponential(attempt) == 2 ^ (attempt - 1)

\* waitTime := time.Duration(attempt) * time.Second, in seconds
Backoff(attempt) == attempt

\* The loop of DownloadContentWithRetry; net[k] is the response to the k-th
\* request made.  Besides (data, err) the result records what the call did:
\* how many requests it made and the waits (in seconds) it slept, in order.
RECURSIVE RetryLoop(_, _, _, _, _)
RetryLoop(net, retries, attempt, lastErr, slept) ==
    IF attempt <= retries
    THEN LET waited == IF attempt > 0 THEN Append(slept, Backoff(attempt)) ELSE slept
             r == DownloadContent(net[attempt + 1])
         IN  IF r.err = NoErr
             THEN [data |-> r.data, err |-> NoErr,
                   attempts |-> attempt + 1, slept |-> waited]
             ELSE RetryLoop(net, retries, attempt + 1, r.err, waited)
    ELSE [data |-> Nil,
          err |-> [msg |-> "failed after retries", retries |-> retries,
                   cause |-> lastErr],
          attempts |-> attempt, slept |-> slept]

\* Faulty variant: a loop that never ran returns its empty results, (nil, nil)
DownloadContentWithRetry_NilError(net, retries) ==
    IF retries < 0
    THEN [data |-> Chunk(0, 0), err |-> NoErr, attempts |-> 0, slept |-> <<>>]
    ELSE RetryLoop(net, retries, 0, NoErr, <<>>)

\* Faulty variant: the loop runs while attempt < maxRetries
DownloadContentWithRetry_OneFewer(net, retries) ==
    RetryLoop(net, retries - 1, 0, NoErr, <<>>)

DownloadContentWithRetry(net, retries) == RetryLoop(net, retries, 0, NoErr, <<>>)

\* ------------------------------------------------------------- decryption
\* Faulty variant: a string that does not decode yields sixteen zero bytes
HexDecode_Lenient(iv) ==
    IF Len(iv) % 2 # 0 \/ \E k \in 1..Len(iv) : iv[k] = NotHex
    THEN [bytes |-> [k \in 1..16 |-> 0], err |-> NoErr]
    ELSE [bytes |-> [k \in 1..(Len(iv) \div 2) |-> iv[2 * k - 1] * 16 + iv[2 * k]],
          err |-> NoErr]

\* hex.DecodeString on an IV string: the bytes, or an error for an odd number
\* of characters or a character that is no hex digit.
HexDecode(iv) ==
    IF Len(iv) % 2 # 0 \/ \E k \in 1..Len(iv) : iv[k] = NotHex
    THEN [bytes |-> <<>>, err |-> [msg |-> "failed to decode IV"]]
    ELSE [bytes |-> [k \in 1..(Len(iv) \div 2) |-> iv[2 * k - 1] * 16 + iv[2 * k]],
          err |-> NoErr]

\* byte(x >> n)
ByteOf(x, n) == (x \div (2 ^ n)) % 256

\* Faulty variant: only the two low bytes of the index are stored
DerivedIV_LowBytes(segmentIndex) ==
    [k \in 1..16 |-> IF k = 15 THEN ByteOf(segmentIndex, 8)
                     ELSE IF k = 16 THEN ByteOf(segmentIndex, 0)
                     ELSE 0]

\* ivBytes = make([]byte, 16) with the index in the last four bytes
DerivedIV(segmentIndex) ==
    [k \in 1..16 |-> IF k = 13 THEN ByteOf(segmentIndex, 24)
                     ELSE IF k = 14 THEN ByteOf(segmentIndex, 16)
                     ELSE IF k = 15 THEN ByteOf(segmentIndex, 8)
                     ELSE IF k = 16 THEN ByteOf(segmentIndex, 0)
                     ELSE 0]

\* Faulty variant: misaligned data are decrypted all the same
DecryptSegment_NoAlignCheck(encryptedData, key, iv, segmentIndex) ==
    LET ivBytes == IF iv # <<>> THEN HexDecode(iv).bytes
                   ELSE DerivedIV(segmentIndex)
    IN  IF key \notin AESKeySizes
        THEN [data |-> Nil, err |-> [msg |-> "failed to create cipher"],
              iv |-> Nil]
        ELSE IF iv # <<>> /\ HexDecode(iv).err # NoErr
        THEN [data |-> Nil, err |-> HexDecode(iv).err, iv |-> Nil]
        ELSE IF Len(ivBytes) # BlockSize
        THEN [data |-> Nil, err |-> [msg |-> "invalid IV length"], iv |-> Nil]
        ELSE [data |-> [encryptedData EXCEPT !.form = "plain"], err |-> NoErr,
              iv |-> ivBytes]

\* DecryptSegment on a chunk; key is the key's length in bytes.  Besides
\* (data, err) the result records the IV handed to cipher.NewCBCDecrypter
\* (Nil when the call returned before that).
DecryptSegment(encryptedData, key, iv, segmentIndex) ==
    LET ivBytes == IF iv # <<>> THEN HexDecode(iv).bytes
                   ELSE DerivedIV(segmentIndex)
    IN  IF key \notin AESKeySizes
        THEN [data |-> Nil, err |-> [msg |-> "failed to create cipher"],
              iv |-> Nil]
        ELSE IF iv # <<>> /\ HexDecode(iv).err # NoErr
        THEN [data |-> Nil, err |-> HexDecode(iv).err, iv |-> Nil]
        ELSE IF Len(ivBytes) # BlockSize
        THEN [data |-> Nil, err |-> [msg |-> "invalid IV length"], iv |-> Nil]
        ELSE IF encryptedData.len % BlockSize # 0
        THEN [data |-> Nil, err |-> [msg |-> "not a multiple of block size"],
              iv |-> ivBytes]
        ELSE [data |-> [encryptedData EXCEPT !.form = "plain"], err |-> NoErr,
              iv |-> ivBytes]


\* ----------------------------------------------------------- file system
NoFiles == [p \in {} |-> Nil]
WriteFile(fs, path, content) ==
    [p \in DOMAIN fs \cup {path} |-> IF p = path THEN content ELSE fs[p]]
RemoveAllFiles(fs, dir) == [p \in {q \in DOMAIN fs : q.dir # dir} |-> fs[p]]
\* Faulty variant: every segment's temp file gets the same name
SegmentPath_SameName(dir, index) == [dir |-> dir, name |-> 0]
\* filepath.Join(d.tempDir, fmt.Sprintf("segment_%06d.ts", index))
SegmentPath(dir, index) == [dir |-> dir, name |-> index]

\* -------------------------------------------------------------- storage
\* Faulty variant: the switch happens at the threshold, not only above it
checkAndSwitchToDisk_AtThreshold(newDataSize, mkdirOk) ==
    LET total == totalSize + newDataSize
    IN  IF ~useDiskStorage /\ total >= MemoryThreshold
        THEN IF mkdirOk
             THEN [totalSize |-> total, useDiskStorage |-> TRUE,
                   tempDir |-> TempDirName, dirs |-> dirs \cup {TempDirName},
                   err |-> NoErr]
             ELSE [totalSize |-> total, useDiskStorage |-> useDiskStorage,
                   tempDir |-> tempDir, dirs |-> dirs,
                   err |-> [msg |-> "failed to create temp directory"]]
        ELSE [totalSize |-> total, useDiskStorage |-> useDiskStorage,
              tempDir |-> tempDir, dirs |-> dirs, err |-> NoErr]

\* Faulty variant: the threshold is tested before the new size is added
checkAndSwitchToDisk_BeforeAdding(newDataSize, mkdirOk) ==
    LET total == totalSize + newDataSize
    IN  IF ~useDiskStorage /\ totalSize > MemoryThreshold
        THEN IF mkdirOk
             THEN [totalSize |-> total, useDiskStorage |-> TRUE,
                   tempDir |-> TempDirName, dirs |-> dirs \cup {TempDirName},
                   err |-> NoErr]
             ELSE [totalSize |-> total, useDiskStorage |-> useDiskStorage,
                   tempDir |-> tempDir, dirs |-> dirs,
                   err |-> [msg |-> "failed to create temp directory"]]
        ELSE [totalSize |-> total, useDiskStorage |-> useDiskStorage,
              tempDir |-> tempDir, dirs |-> dirs, err |-> NoErr]

\* Faulty variant: the size is taken back when the directory cannot be made
checkAndSwitchToDisk_RollBack(newDataSize, mkdirOk) ==
    LET total == totalSize + newDataSize
    IN  IF ~useDiskStorage /\ total > MemoryThreshold
        THEN IF mkdirOk
             THEN [totalSize |-> total, useDiskStorage |-> TRUE,
                   tempDir |-> TempDirName, dirs |-> dirs \cup {TempDirName},
                   err |-> NoErr]
             ELSE [totalSize |-> totalSize, useDiskStorage |-> useDiskStorage,
                   tempDir |-> tempDir, dirs |-> dirs,
                   err |-> [msg |-> "failed to create temp directory"]]
        ELSE [totalSize |-> total, useDiskStorage |-> useDiskStorage,
              tempDir |-> tempDir, dirs |-> dirs, err |-> NoErr]

\* Faulty variant: the mode is switched even when the directory could not be
\* created, and the size is added only when the check succeeds
checkAndSwitchToDisk_SwitchFirst(newDataSize, mkdirOk) ==
    LET total == totalSize + newDataSize
    IN  IF ~useDiskStorage /\ total > MemoryThreshold
        THEN IF mkdirOk
             THEN [totalSize |-> total, useDiskStorage |-> TRUE,
                   tempDir |-> TempDirName, dirs |-> dirs \cup {TempDirName},
                   err |-> NoErr]
             ELSE [totalSize |-> totalSize, useDiskStorage |-> TRUE,
                   tempDir |-> tempDir, dirs |-> dirs,
                   err |-> [msg |-> "failed to create temp directory"]]
        ELSE [totalSize |-> total, useDiskStorage |-> useDiskStorage,
              tempDir |-> tempDir, dirs |-> dirs, err |-> NoErr]

\* checkAndSwitchToDisk under the mutex, given whether os.MkdirTemp succeeds:
\* the Downloader's fields and the directories afterwards, and the error.
checkAndSwitchToDisk(newDataSize, mkdirOk) ==
    LET total == totalSize + newDataSize
    IN  IF ~useDiskStorage /\ total > MemoryThreshold
        THEN IF mkdirOk
             THEN [totalSize |-> total, useDiskStorage |-> TRUE,
                   tempDir |-> TempDirName, dirs |-> dirs \cup {TempDirName},
                   err |-> NoErr]
             ELSE [totalSize |-> total, useDiskStorage |-> useDiskStorage,
                   tempDir |-> tempDir, dirs |-> dirs,
                   err |-> [msg |-> "failed to create temp directory"]]
        ELSE [totalSize |-> total, useDiskStorage |-> useDiskStorage,
              tempDir |-> tempDir, dirs |-> dirs, err |-> NoErr]

\* shouldUseDisk under the mutex
shouldUseDisk == useDiskStorage

\* ------------------------------------------------------------------ Init
NotCalled == [called |-> FALSE, data |-> Nil, err |-> NoErr, attempts |-> 0,
              slept |-> <<>>]

\* NewDownloader, and DownloadSegments up to its for loop
RunInit ==
    /\ progress = 0
    /\ totalSize = 0
    /\ useDiskStorage = FALSE
    /\ tempDir = NoDir
    /\ launched = 0
    /\ pc = [i \in 0..(Len(segments) - 1) |-> "unlaunched"]
    /\ data = [i \in 0..(Len(segments) - 1) |-> Nil]
    /\ segmentData = [i \in 0..(Len(segments) - 1) |-> ZeroSegmentData]
    /\ semaphore = 0
    /\ wg = 0
    /\ resultChan = <<>>
    /\ closed = FALSE
    /\ results = [k \in 1..Len(segments) |-> ZeroSegmentData]
    /\ errors = <<>>
    /\ mainPc = "launch"
    /\ ret = [records |-> <<>>, err |-> NoErr]
    /\ dirs = {}
    /\ files = NoFiles
    /\ output = NoFile
    /\ mergeErr = NoErr
    /\ audioDownloader = Nil
    /\ audioRet = [records |-> <<>>, err |-> NoErr]
    /\ audioOutput = NoFile
    /\ mu = NoHolder
    /\ initRequests = 0
    /\ stdout = [i \in 0..(Len(segments) - 1) |-> Nil]

Init ==
    /\ segments \in {[k \in 1..n |-> k - 1] : n \in 1..MaxSegs}
    /\ maxConcurrent \in ConcurrencyLimits
    /\ maxRetries \in RetryLimits
    /\ playlist \in Playlists
    /\ RunInit
    /\ callNet = <<>>
    /\ callRetries = 0
    /\ callArgs = Nil
    /\ call = NotCalled

\* ------------------------------------------ DownloadSegments: goroutines
\* for i, segmentURL := range segments { wg.Add(1); go func(...) }
Launch ==
    /\ mainPc = "launch"
    /\ launched < N
    /\ wg' = wg + 1
    /\ pc' = [pc EXCEPT ![launched] = "acquire"]
    /\ launched' = launched + 1
    /\ mainPc' = IF launched + 1 = N THEN "collect" ELSE "launch"
    /\ UNCHANGED <<fnVars, auVars, lockVars, netVars, cfgVars, dlVars, data, segmentData, semaphore, resultChan,
                   closed, collVars, fsVars, mergeErr>>

\* Faulty variant: a slot is taken without waiting for a free one
Acquire_Unbounded(i) ==
    /\ pc[i] = "acquire"
    /\ semaphore' = semaphore + 1
    /\ pc' = [pc EXCEPT ![i] = "fetch"]
    /\ UNCHANGED <<fnVars, auVars, lockVars, netVars, cfgVars, dlVars, data, segmentData, wg, resultChan,
                   closed, collVars, fsVars, launched, mainPc, mergeErr>>

\* Faulty variant: a limit of 0 is taken as a limit of 1
Acquire_AtLeastOne(i) ==
    /\ pc[i] = "acquire"
    /\ semaphore < (IF maxConcurrent < 1 THEN 1 ELSE maxConcurrent)
    /\ semaphore' = semaphore + 1
    /\ pc' = [pc EXCEPT ![i] = "fetch"]
    /\ UNCHANGED <<fnVars, auVars, lockVars, netVars, cfgVars, dlVars, data,
                   segmentData, wg, resultChan, closed, collVars, fsVars,
                   launched, mainPc, mergeErr>>

\* semaphore <- struct{}{}
Acquire(i) ==
    /\ pc[i] = "acquire"
    /\ semaphore < maxConcurrent
    /\ semaphore' = semaphore + 1
    /\ pc' = [pc EXCEPT ![i] = "fetch"]
    /\ UNCHANGED <<fnVars, auVars, lockVars, netVars, cfgVars, dlVars, data, segmentData, wg, resultChan, closed,
                   collVars, fsVars, launched, mainPc, mergeErr>>

\* What the server may answer to a request for locator i
SegmentResponses(i) ==
    {Response(FALSE, 404, FALSE, Nil)}
        \cup {Response(FALSE, StatusOK, FALSE, Chunk(i, n)) : n \in SegSizes}

\* data, err := DownloadContentWithRetry(url, d.maxRetries)
Fetch(i) ==
    /\ pc[i] = "fetch"
    /\ \E net \in [1..(maxRetries + 1) -> SegmentResponses(i)] :
          LET r == DownloadContentWithRetry(net, maxRetries)
          IN  /\ data' = [data EXCEPT ![i] = r.data]
              /\ IF r.err # NoErr
                 THEN /\ segmentData' =
                           [segmentData EXCEPT ![i] = ErrorRecord(i, r.err)]
                      /\ pc' = [pc EXCEPT ![i] = "sendErr"]
                 ELSE /\ segmentData' = segmentData
                      /\ pc' = [pc EXCEPT ![i] =
                                  IF playlist.Encrypted THEN "decrypt" ELSE "check"]
    /\ UNCHANGED <<fnVars, auVars, lockVars, netVars, cfgVars, dlVars, syncVars, collVars, fsVars, launched,
                   mainPc, mergeErr>>

\* data, err = DecryptSegment(data, d.playlist.Key, d.playlist.KeyIV, index)
Decrypt(i) ==
    /\ pc[i] = "decrypt"
    /\ LET r == DecryptSegment(data[i], playlist.Key, playlist.KeyIV, i)
       IN  /\ data' = [data EXCEPT ![i] = r.data]
           /\ IF r.err # NoErr
              THEN /\ segmentData' = [segmentData EXCEPT ![i] =
                        ErrorRecord(i, [msg |-> "decryption failed",
                                        cause |-> r.err])]
                   /\ pc' = [pc EXCEPT ![i] = "sendErr"]
              ELSE /\ segmentData' = segmentData
                   /\ pc' = [pc EXCEPT ![i] = "check"]
    /\ UNCHANGED <<fnVars, auVars, lockVars, netVars, cfgVars, dlVars, syncVars, collVars, fsVars, launched,
                   mainPc, mergeErr>>

\* err = d.checkAndSwitchToDisk(len(data))
CheckAndSwitch(i) ==
    /\ pc[i] = "check"
    /\ \E mkdirOk \in BOOLEAN :
          LET r == checkAndSwitchToDisk(data[i].len, mkdirOk)
          IN  /\ totalSize' = r.totalSize
              /\ useDiskStorage' = r.useDiskStorage
              /\ tempDir' = r.tempDir
              /\ dirs' = r.dirs
              /\ IF r.err # NoErr
                 THEN /\ segmentData' = [segmentData EXCEPT ![i] =
                           ErrorRecord(i, [msg |-> "storage check failed",
                                           cause |-> r.err])]
                      /\ pc' = [pc EXCEPT ![i] = "sendErr"]
                 ELSE /\ segmentData' = segmentData
                      /\ pc' = [pc EXCEPT ![i] = "mode"]
    /\ UNCHANGED <<fnVars, auVars, lockVars, netVars, cfgVars, progress, data, syncVars, collVars, files, output,
                   launched, mainPc, mergeErr>>

\* Faulty variant: a small segment is kept in memory whatever the mode
ShouldUseDisk_SmallInMemory(i) ==
    /\ pc[i] = "mode"
    /\ segmentData' = [segmentData EXCEPT ![i] =
                          [ZeroSegmentData EXCEPT !.Index = i]]
    /\ pc' = [pc EXCEPT ![i] = IF shouldUseDisk /\ data[i].len >= MiB
                                THEN "writeFile" ELSE "storeMem"]
    /\ UNCHANGED <<fnVars, auVars, lockVars, netVars, cfgVars, dlVars, data, syncVars, collVars, fsVars,
                   launched, mainPc, mergeErr>>

\* segmentData.Index = index; if d.shouldUseDisk() { ... } else { ... }
ShouldUseDisk(i) ==
    /\ pc[i] = "mode"
    /\ segmentData' = [segmentData EXCEPT ![i] =
                          [ZeroSegmentData EXCEPT !.Index = i]]
    /\ pc' = [pc EXCEPT ![i] = IF shouldUseDisk THEN "writeFile" ELSE "storeMem"]
    /\ UNCHANGED <<fnVars, auVars, lockVars, netVars, cfgVars, dlVars, data, syncVars, collVars, fsVars, launched,
                   mainPc, mergeErr>>

\* Faulty variant: the record keeps the temp file's path when the write failed
StoreOnDisk_PathOnFailure(i) ==
    /\ pc[i] = "writeFile"
    /\ LET tempFile == SegmentPath(tempDir, i)
       IN  \E ioOk \in BOOLEAN :
             IF ioOk /\ tempDir \in dirs
             THEN /\ files' = WriteFile(files, tempFile, data[i])
                  /\ segmentData' =
                       [segmentData EXCEPT ![i].FilePath = tempFile]
             ELSE /\ files' = files
                  /\ segmentData' = [segmentData EXCEPT
                                       ![i].FilePath = tempFile,
                                       ![i].Error =
                                          [msg |-> "failed to write temp file"]]
    /\ pc' = [pc EXCEPT ![i] = "progress"]
    /\ UNCHANGED <<fnVars, auVars, lockVars, netVars, cfgVars, dlVars, data, syncVars, collVars, dirs,
                   output, launched, mainPc, mergeErr>>

\* tempFile := filepath.Join(d.tempDir, ...); err = os.WriteFile(tempFile, data)
StoreOnDisk(i) ==
    /\ pc[i] = "writeFile"
    /\ LET tempFile == SegmentPath(tempDir, i)
       IN  \E ioOk \in BOOLEAN :
             IF ioOk /\ tempDir \in dirs
             THEN /\ files' = WriteFile(files, tempFile, data[i])
                  /\ segmentData' =
                       [segmentData EXCEPT ![i].FilePath = tempFile]
             ELSE /\ files' = files
                  /\ segmentData' = [segmentData EXCEPT ![i].Error =
                                       [msg |-> "failed to write temp file"]]
    /\ pc' = [pc EXCEPT ![i] = "progress"]
    /\ UNCHANGED <<fnVars, auVars, lockVars, netVars, cfgVars, dlVars, data, syncVars, collVars, dirs, output,
                   launched, mainPc, mergeErr>>

\* segmentData.Data = data
StoreInMemory(i) ==
    /\ pc[i] = "storeMem"
    /\ segmentData' = [segmentData EXCEPT ![i].Data = data[i]]
    /\ pc' = [pc EXCEPT ![i] = "progress"]
    /\ UNCHANGED <<fnVars, auVars, lockVars, netVars, cfgVars, dlVars, data, syncVars, collVars, fsVars, launched,
                   mainPc, mergeErr>>

\* Faulty variant: the early-return paths do not count their segment
UpdateProgress_SuccessOnly(i) ==
    /\ pc[i] \in {"progress", "progressErr"}
    /\ progress' = IF pc[i] = "progress" THEN progress + 1 ELSE progress
    /\ pc' = [pc EXCEPT ![i] = IF pc[i] = "progress" THEN "send" ELSE "release"]
    /\ UNCHANGED <<fnVars, auVars, lockVars, netVars, cfgVars, totalSize, useDiskStorage,
                   tempDir, data, segmentData, syncVars, collVars, fsVars,
                   launched, mainPc, mergeErr>>

\* atomic.AddInt32(&d.progress, 1): before the send on the success path,
\* after it on the three early-return paths
UpdateProgress(i) ==
    /\ pc[i] \in {"progress", "progressErr"}
    /\ progress' = progress + 1
    /\ pc' = [pc EXCEPT ![i] = IF pc[i] = "progress" THEN "send" ELSE "release"]
    /\ UNCHANGED <<fnVars, auVars, lockVars, netVars, cfgVars, totalSize, useDiskStorage, tempDir, data,
                   segmentData, syncVars, collVars, fsVars, launched, mainPc,
                   mergeErr>>

\* Faulty variant: a failure record is sent a second time
Publish_FailureTwice(i) ==
    /\ pc[i] \in {"send", "sendErr"}
    /\ Len(resultChan) < N
    /\ resultChan' = IF pc[i] = "sendErr"
                     THEN Append(Append(resultChan, segmentData[i]), segmentData[i])
                     ELSE Append(resultChan, segmentData[i])
    /\ pc' = [pc EXCEPT ![i] = IF pc[i] = "send" THEN "release" ELSE "progressErr"]
    /\ UNCHANGED <<fnVars, auVars, lockVars, netVars, cfgVars, dlVars, data,
                   segmentData, semaphore, wg, closed, collVars, fsVars,
                   launched, mainPc, mergeErr>>

\* Faulty variant: the slot is given back as the record is sent, and the
\* deferred release gives it back once more
Publish_ReleasesSlot(i) ==
    /\ pc[i] \in {"send", "sendErr"}
    /\ Len(resultChan) < N
    /\ resultChan' = Append(resultChan, segmentData[i])
    /\ semaphore' = semaphore - 1
    /\ pc' = [pc EXCEPT ![i] = IF pc[i] = "send" THEN "release" ELSE "progressErr"]
    /\ UNCHANGED <<fnVars, auVars, lockVars, netVars, cfgVars, dlVars, data, segmentData,
                   wg, closed, collVars, fsVars, launched, mainPc, mergeErr>>

\* resultChan <- segmentData (a channel of capacity len(segments))
Publish(i) ==
    /\ pc[i] \in {"send", "sendErr"}
    /\ Len(resultChan) < N
    /\ resultChan' = Append(resultChan, segmentData[i])
    /\ pc' = [pc EXCEPT ![i] = IF pc[i] = "send" THEN "release" ELSE "progressErr"]
    /\ UNCHANGED <<fnVars, auVars, lockVars, netVars, cfgVars, dlVars, data, segmentData, semaphore, wg, closed,
                   collVars, fsVars, launched, mainPc, mergeErr>>

\* Faulty variant: the goroutine returns without giving its slot back
Release_KeepSlot(i) ==
    /\ pc[i] = "release"
    /\ semaphore' = semaphore
    /\ pc' = [pc EXCEPT ![i] = "wgDone"]
    /\ UNCHANGED <<fnVars, auVars, lockVars, netVars, cfgVars, dlVars, data,
                   segmentData, wg, resultChan, closed, collVars, fsVars,
                   launched, mainPc, mergeErr>>

\* the deferred func() { <-semaphore }()
Release(i) ==
    /\ pc[i] = "release"
    /\ semaphore' = semaphore - 1
    /\ pc' = [pc EXCEPT ![i] = "wgDone"]
    /\ UNCHANGED <<fnVars, auVars, lockVars, netVars, cfgVars, dlVars, data, segmentData, wg, resultChan, closed,
                   collVars, fsVars, launched, mainPc, mergeErr>>

\* the deferred wg.Done()
Done(i) ==
    /\ pc[i] = "wgDone"
    /\ wg' = wg - 1
    /\ pc' = [pc EXCEPT ![i] = "done"]
    /\ UNCHANGED <<fnVars, auVars, lockVars, netVars, cfgVars, dlVars, data, segmentData, semaphore, resultChan,
                   closed, collVars, fsVars, launched, mainPc, mergeErr>>

\* ------------------------------------------- DownloadSegments: collector
\* go func() { wg.Wait(); close(resultChan) }()
CloseResults ==
    /\ mainPc = "collect"
    /\ wg = 0
    /\ ~closed
    /\ closed' = TRUE
    /\ UNCHANGED <<fnVars, auVars, lockVars, netVars, cfgVars, dlVars, taskVars, semaphore, wg, resultChan,
                   collVars, fsVars, launched, mainPc, mergeErr>>

\* Faulty variant: a successful record is stored at the next free position, in
\* order of arrival, instead of at its own index
Collect_ArrivalOrder ==
    /\ mainPc = "collect"
    /\ resultChan # <<>>
    /\ LET result == Head(resultChan)
           free == {k \in 1..N : results[k] = ZeroSegmentData}
           next == CHOOSE k \in free : \A m \in free : k <= m
       IN  IF result.Error # NoErr
           THEN /\ errors' = Append(errors, [msg |-> "segment",
                                             index |-> result.Index,
                                             cause |-> result.Error])
                /\ results' = results
           ELSE /\ results' = [results EXCEPT ![next] = result]
                /\ errors' = errors
    /\ resultChan' = Tail(resultChan)
    /\ UNCHANGED <<fnVars, auVars, lockVars, netVars, cfgVars, dlVars, taskVars, semaphore, wg, closed,
                   ret, fsVars, launched, mainPc, mergeErr>>

\* one iteration of: for result := range resultChan { ... }
Collect ==
    /\ mainPc = "collect"
    /\ resultChan # <<>>
    /\ LET result == Head(resultChan)
       IN  IF result.Error # NoErr
           THEN /\ errors' = Append(errors, [msg |-> "segment",
                                             index |-> result.Index,
                                             cause |-> result.Error])
                /\ results' = results
           ELSE /\ results' = [results EXCEPT ![result.Index + 1] = result]
                /\ errors' = errors
    /\ resultChan' = Tail(resultChan)
    /\ UNCHANGED <<fnVars, auVars, lockVars, netVars, cfgVars, dlVars, taskVars, semaphore, wg, closed, ret,
                   fsVars, launched, mainPc, mergeErr>>

\* Faulty variant: the error named is the last one collected
DownloadResult_LastError ==
    IF Len(errors) > 0
    THEN [records |-> <<>>,
          err |-> [msg |-> "failed to download", count |-> Len(errors),
                   first |-> errors[Len(errors)]]]
    ELSE [records |-> results, err |-> NoErr]

\* Faulty variant: a single failed segment is tolerated
DownloadResult_TolerateOne ==
    IF Len(errors) > 1
    THEN [records |-> <<>>,
          err |-> [msg |-> "failed to download", count |-> Len(errors),
                   first |-> errors[1]]]
    ELSE [records |-> results, err |-> NoErr]

\* What DownloadSegments returns once the channel is closed and drained
DownloadResult ==
    IF Len(errors) > 0
    THEN [records |-> <<>>,
          err |-> [msg |-> "failed to download", count |-> Len(errors),
                   first |-> errors[1]]]
    ELSE [records |-> results, err |-> NoErr]

\* Faulty variant: the collector gives up at the first error it has received
Return_OnFirstError ==
    /\ mainPc = "collect"
    /\ \/ resultChan = <<>> /\ closed
       \/ errors # <<>>
    /\ ret' = DownloadResult
    /\ IF Len(errors) > 0 /\ tempDir # NoDir
       THEN /\ dirs' = dirs \ {tempDir}
            /\ files' = RemoveAllFiles(files, tempDir)
       ELSE UNCHANGED <<dirs, files>>
    /\ mainPc' = "returned"
    /\ UNCHANGED <<fnVars, auVars, lockVars, netVars, cfgVars, dlVars, taskVars, syncVars, results, errors,
                   output, launched, mergeErr>>

\* Faulty variant: the temp directory is left in place when the run failed
Return_KeepDir ==
    /\ mainPc = "collect"
    /\ resultChan = <<>>
    /\ closed
    /\ ret' = DownloadResult
    /\ mainPc' = "returned"
    /\ UNCHANGED <<fnVars, auVars, lockVars, netVars, cfgVars, dlVars, taskVars, syncVars, results,
                   errors, fsVars, launched, mergeErr>>

\* Faulty variant: the loop ends as soon as the channel is empty after an
\* error, without waiting for the close
Return_WhenDrained ==
    /\ mainPc = "collect"
    /\ resultChan = <<>>
    /\ closed \/ Len(errors) > 0
    /\ ret' = DownloadResult
    /\ IF Len(errors) > 0 /\ tempDir # NoDir
       THEN /\ dirs' = dirs \ {tempDir}
            /\ files' = RemoveAllFiles(files, tempDir)
       ELSE UNCHANGED <<dirs, files>>
    /\ mainPc' = "returned"
    /\ UNCHANGED <<fnVars, auVars, lockVars, netVars, cfgVars, dlVars, taskVars,
                   syncVars, results, errors, output, launched, mergeErr>>

\* the range loop ends; on errors the temp directory is removed
Return ==
    /\ mainPc = "collect"
    /\ resultChan = <<>>
    /\ closed
    /\ ret' = DownloadResult
    /\ IF Len(errors) > 0 /\ tempDir # NoDir
       THEN /\ dirs' = dirs \ {tempDir}
            /\ files' = RemoveAllFiles(files, tempDir)
       ELSE UNCHANGED <<dirs, files>>
    /\ mainPc' = "returned"
    /\ UNCHANGED <<fnVars, auVars, lockVars, netVars, cfgVars, dlVars, taskVars, syncVars, results, errors,
                   output, launched, mergeErr>>

\* ------------------------------------------------------------ merging
\* The loop of MergeSegments from position k on, onto the output so far.
\* plan names the position whose file operation fails (0: none) and which
\* operation it is; reading a temp file that does not exist fails anyway.
RECURSIVE MergeLoop(_, _, _, _)
MergeLoop(segs, k, out, plan) ==
    IF k > Len(segs) THEN [out |-> out, err |-> NoErr]
    ELSE LET segment == segs[k]
             fromDisk == segment.FilePath # NoPath
         IN  IF fromDisk /\ (segment.FilePath \notin DOMAIN files
                             \/ (plan.failAt = k /\ plan.op = "read"))
             THEN [out |-> out,
                   err |-> [msg |-> "failed to read segment", index |-> k - 1]]
             ELSE IF ~fromDisk /\ segment.Data = Nil
             THEN [out |-> out,
                   err |-> [msg |-> "segment has no data", index |-> k - 1]]
             ELSE IF plan.failAt = k /\ plan.op = "write"
             THEN [out |-> out,
                   err |-> [msg |-> "failed to write segment", index |-> k - 1]]
             ELSE MergeLoop(segs, k + 1,
                            [out EXCEPT !.content =
                               Append(@, IF fromDisk THEN files[segment.FilePath]
                                         ELSE segment.Data)],
                            plan)

\* what os.Create leaves at the destination: an empty file
Created == [exists |-> TRUE, content |-> <<>>]

\* MergeSegments(segments, outputPath): os.Create, then the loop
MergeSegments(segs, plan) ==
    IF ~plan.createOk
    THEN [out |-> output, err |-> [msg |-> "failed to create output file"]]
    ELSE MergeLoop(segs, 1, Created, plan)

MergePlans ==
    [createOk : BOOLEAN, failAt : 0..N, op : {"read", "write"}]

\* the bytes served at an initialization segment's locator
InitChunk(locator) == [init |-> locator, len |-> 8, form |-> "raw"]

\* What the server may answer to a request for an initialization segment
InitResponses(locator) ==
    {Response(FALSE, 404, FALSE, Nil),
     Response(FALSE, StatusOK, FALSE, InitChunk(locator))}

\* Faulty variant: the initialization segment is written after the media
MergeSegmentsWithInit_InitLast(segs, initSegment, retries, dest, plan) ==
    IF initSegment = ""
    THEN [out |-> dest, err |-> [msg |-> "no initialization segment found"],
          requests |-> 0]
    ELSE IF ~plan.createOk
    THEN [out |-> dest, err |-> [msg |-> "failed to create output file"],
          requests |-> 0]
    ELSE LET r == DownloadContentWithRetry(plan.initNet, retries)
             m == MergeLoop(segs, 1, Created, plan)
         IN  IF r.err # NoErr
             THEN [out |-> Created,
                   err |-> [msg |-> "failed to download initialization segment",
                            cause |-> r.err],
                   requests |-> r.attempts]
             ELSE IF m.err # NoErr
             THEN [out |-> m.out, err |-> m.err, requests |-> r.attempts]
             ELSE [out |-> [m.out EXCEPT !.content = Append(@, r.data)],
                   err |-> NoErr, requests |-> r.attempts]

\* Faulty variant: the initialization segment is fetched before the
\* destination is created
MergeSegmentsWithInit_FetchFirst(segs, initSegment, retries, dest, plan) ==
    IF initSegment = ""
    THEN [out |-> dest, err |-> [msg |-> "no initialization segment found"],
          requests |-> 0]
    ELSE LET r == DownloadContentWithRetry(plan.initNet, retries)
             m == MergeLoop(segs, 1, [Created EXCEPT !.content = <<r.data>>],
                            plan)
         IN  IF r.err # NoErr
             THEN [out |-> dest,
                   err |-> [msg |-> "failed to download initialization segment",
                            cause |-> r.err],
                   requests |-> r.attempts]
             ELSE IF ~plan.createOk
             THEN [out |-> dest, err |-> [msg |-> "failed to create output file"],
                   requests |-> r.attempts]
             ELSE IF ~plan.initWriteOk
             THEN [out |-> Created,
                   err |-> [msg |-> "failed to write initialization segment"],
                   requests |-> r.attempts]
             ELSE [out |-> m.out, err |-> m.err, requests |-> r.attempts]

\* MergeSegmentsWithInit(segments, downloader, outputPath), for the
\* downloader's playlist.InitSegment and maxRetries and the file now at
\* outputPath.  plan also gives the server's answers to the requests for the
\* initialization segment and whether writing it succeeds.
MergeSegmentsWithInit(segs, initSegment, retries, dest, plan) ==
    IF initSegment = ""
    THEN [out |-> dest, err |-> [msg |-> "no initialization segment found"],
          requests |-> 0]
    ELSE IF ~plan.createOk
    THEN [out |-> dest, err |-> [msg |-> "failed to create output file"],
          requests |-> 0]
    ELSE LET r == DownloadContentWithRetry(plan.initNet, retries)
             m == MergeLoop(segs, 1, [Created EXCEPT !.content = <<r.data>>],
                            plan)
         IN  IF r.err # NoErr
             THEN [out |-> Created,
                   err |-> [msg |-> "failed to download initialization segment",
                            cause |-> r.err],
                   requests |-> r.attempts]
             ELSE IF ~plan.initWriteOk
             THEN [out |-> Created,
                   err |-> [msg |-> "failed to write initialization segment"],
                   requests |-> r.attempts]
             ELSE [out |-> m.out, err |-> m.err, requests |-> r.attempts]

InitMergePlans(n, locator, retries) ==
    [createOk : BOOLEAN, failAt : 0..n, op : {"read", "write"},
     initNet : [1..(retries + 1) -> InitResponses(locator)],
     initWriteOk : BOOLEAN]

\* ----------------------------------------------------------------- main
\* Faulty variant: the directory is removed but the files in it are left
CleanupTempFiles_KeepFiles(dir, ds, fs) ==
    IF dir # NoDir
    THEN [dirs |-> ds \ {dir}, files |-> fs]
    ELSE [dirs |-> ds, files |-> fs]

\* d.CleanupTempFiles() for a downloader whose tempDir is dir: what is left
\* of the directories ds and the temp files fs afterwards
CleanupTempFiles(dir, ds, fs) ==
    IF dir # NoDir
    THEN [dirs |-> ds \ {dir}, files |-> RemoveAllFiles(fs, dir)]
    ELSE [dirs |-> ds, files |-> fs]

\* Faulty variant: only the video downloader is cleaned up
CleanupBoth_VideoOnly == CleanupTempFiles(tempDir, dirs, files)

\* downloader.CleanupTempFiles();
\* if audioDownloader != nil { audioDownloader.CleanupTempFiles() }
CleanupBoth ==
    LET c == CleanupTempFiles(tempDir, dirs, files)
    IN  IF audioDownloader # Nil
        THEN CleanupTempFiles(audioDownloader.tempDir, c.dirs, c.files)
        ELSE c

\* playlist.HasAudio && len(playlist.AudioSegments) > 0
HasAudioTrack == playlist.HasAudio /\ Len(playlist.AudioSegments) > 0

\* if err != nil { downloader.CleanupTempFiles(); os.Exit(1) }
MainDownloadFailed ==
    /\ mainPc = "returned"
    /\ ret.err # NoErr
    /\ dirs' = CleanupTempFiles(tempDir, dirs, files).dirs
    /\ files' = CleanupTempFiles(tempDir, dirs, files).files
    /\ mainPc' = "exit"
    /\ UNCHANGED <<fnVars, auVars, lockVars, netVars, cfgVars, dlVars, taskVars, syncVars, collVars,
                   output, launched, mergeErr>>

\* The payload of locator i of a track, in a run whose steps are not followed
TrackChunk(track, i) == [seg |-> i, len |-> 8, form |-> "raw", track |-> track]

\* fs with the files of new added
WriteFiles(fs, new) ==
    [p \in DOMAIN fs \cup DOMAIN new |-> IF p \in DOMAIN new THEN new[p] ELSE fs[p]]

\* DownloadSegments(locs) as a whole, for a downloader whose temp directory
\* would be dirName: what it may return and leave behind.  It fails, having
\* removed the directory if it made one; or it succeeds with every record in
\* memory and no directory; or it succeeds with the directory and at least
\* one record in a temp file there.
DownloadSegmentsOutcomes(locs, dirName, track) ==
    LET n == Len(locs)
        onDisk(store) == {k \in 1..n : store[k] = "disk"}
        record(k, store) ==
            IF store[k] = "disk"
            THEN [ZeroSegmentData EXCEPT !.Index = k - 1,
                                         !.FilePath = SegmentPath(dirName, k - 1)]
            ELSE [ZeroSegmentData EXCEPT !.Index = k - 1,
                                         !.Data = TrackChunk(track, k - 1)]
        success(store) ==
            [records |-> [k \in 1..n |-> record(k, store)],
             err |-> NoErr,
             tempDir |-> IF onDisk(store) # {} THEN dirName ELSE NoDir,
             dirs |-> IF onDisk(store) # {} THEN {dirName} ELSE {},
             files |-> [p \in {SegmentPath(dirName, k - 1) : k \in onDisk(store)}
                           |-> TrackChunk(track, p.name)]]
    IN  {success(store) : store \in [1..n -> {"mem", "disk"}]}
        \cup {[records |-> <<>>, err |-> [msg |-> "failed to download"],
               tempDir |-> dir, dirs |-> {}, files |-> NoFiles]
                 : dir \in {NoDir, dirName}}

\* downloader := NewDownloader(...);
\* videoSegments, err := downloader.DownloadSegments(playlist.Segments)
MainVideoDownload ==
    /\ mainPc = "launch"
    /\ \E o \in DownloadSegmentsOutcomes(segments, TempDirName, "video") :
          /\ ret' = [records |-> o.records, err |-> o.err]
          /\ tempDir' = o.tempDir
          /\ useDiskStorage' = (o.tempDir # NoDir)
          /\ dirs' = dirs \cup o.dirs
          /\ files' = WriteFiles(files, o.files)
    /\ mainPc' = "returned"
    /\ UNCHANGED <<fnVars, auVars, lockVars, netVars, cfgVars, progress, totalSize, taskVars,
                   syncVars, results, errors, output, launched, mergeErr>>

\* Faulty variant: the audio track is downloaded with the video downloader,
\* whose mode and temp directory it takes over
MainAudioDownload_SharedDownloader ==
    /\ mainPc = "returned"
    /\ ret.err = NoErr
    /\ HasAudioTrack
    /\ \E o \in DownloadSegmentsOutcomes(playlist.AudioSegments,
                                         TempDirName, "audio") :
          /\ audioDownloader' = [maxConcurrent |-> maxConcurrent,
                                 playlist |-> playlist,
                                 maxRetries |-> maxRetries,
                                 tempDir |-> o.tempDir]
          /\ audioRet' = [records |-> o.records, err |-> o.err]
          /\ tempDir' = IF o.tempDir # NoDir THEN o.tempDir ELSE tempDir
          /\ useDiskStorage' = (useDiskStorage \/ o.tempDir # NoDir)
          /\ dirs' = dirs \cup o.dirs
          /\ files' = WriteFiles(files, o.files)
    /\ mainPc' = "audioReturned"
    /\ UNCHANGED <<fnVars, lockVars, netVars, audioOutput, cfgVars, progress,
                   totalSize, taskVars, syncVars, collVars, output, launched,
                   mergeErr>>

\* audioDownloader = NewDownloader(...);
\* audioSegments, err = audioDownloader.DownloadSegments(playlist.AudioSegments)
MainAudioDownload ==
    /\ mainPc = "returned"
    /\ ret.err = NoErr
    /\ HasAudioTrack
    /\ \E o \in DownloadSegmentsOutcomes(playlist.AudioSegments,
                                         AudioTempDirName, "audio") :
          /\ audioDownloader' = [maxConcurrent |-> maxConcurrent,
                                 playlist |-> playlist,
                                 maxRetries |-> maxRetries,
                                 tempDir |-> o.tempDir]
          /\ audioRet' = [records |-> o.records, err |-> o.err]
          /\ dirs' = dirs \cup o.dirs
          /\ files' = WriteFiles(files, o.files)
    /\ mainPc' = "audioReturned"
    /\ UNCHANGED <<fnVars, lockVars, netVars, audioOutput, cfgVars, dlVars, taskVars, syncVars,
                   collVars, output, launched, mergeErr>>

\* if err != nil { downloader.CleanupTempFiles();
\*                 audioDownloader.CleanupTempFiles(); os.Exit(1) }
MainAudioDownloadFailed ==
    /\ mainPc = "audioReturned"
    /\ audioRet.err # NoErr
    /\ dirs' = CleanupBoth.dirs
    /\ files' = CleanupBoth.files
    /\ mainPc' = "exit"
    /\ UNCHANGED <<fnVars, auVars, lockVars, netVars, cfgVars, dlVars, taskVars, syncVars, collVars,
                   output, launched, mergeErr>>

\* err = MergeSegmentsWithInit(videoSegments, downloader, tempVideoFile) for
\* a fragmented playlist, else err = MergeSegments(videoSegments, ...)
MainMerge ==
    /\ \/ mainPc = "returned" /\ ret.err = NoErr /\ ~HasAudioTrack
       \/ mainPc = "audioReturned" /\ audioRet.err = NoErr
    /\ IF playlist.IsFragmented
       THEN \E plan \in InitMergePlans(Len(ret.records), playlist.InitSegment,
                                       maxRetries) :
               LET m == MergeSegmentsWithInit(ret.records, playlist.InitSegment,
                                              maxRetries, output, plan)
               IN  /\ output' = m.out
                   /\ mergeErr' = m.err
                   /\ initRequests' = initRequests + m.requests
       ELSE \E plan \in MergePlans :
               LET m == MergeSegments(ret.records, plan)
               IN  /\ output' = m.out
                   /\ mergeErr' = m.err
                   /\ initRequests' = initRequests
    /\ mainPc' = "merged"
    /\ UNCHANGED <<fnVars, auVars, lockVars, cfgVars, dlVars, taskVars, syncVars, collVars,
                   dirs, files, launched>>

\* if playlist.HasAudio && len(audioSegments) > 0
MergesAudio ==
    playlist.IsFragmented /\ playlist.HasAudio /\ Len(audioRet.records) > 0

\* Faulty variant: the init locator is redirected in the shared playlist
\* itself, not in a copy
MainMergeAudio_SharedPlaylist ==
    /\ mainPc = "merged"
    /\ mergeErr = NoErr
    /\ MergesAudio
    /\ LET audioPlaylist == [playlist EXCEPT !.InitSegment = playlist.AudioInit]
       IN  /\ playlist' = audioPlaylist
           /\ audioDownloader' = [audioDownloader EXCEPT !.playlist = audioPlaylist]
           /\ \E plan \in InitMergePlans(Len(audioRet.records),
                                         audioPlaylist.InitSegment,
                                         audioDownloader.maxRetries) :
                 LET m == MergeSegmentsWithInit(audioRet.records,
                                                audioPlaylist.InitSegment,
                                                audioDownloader.maxRetries,
                                                audioOutput, plan)
                 IN  /\ audioOutput' = m.out
                     /\ mergeErr' = m.err
                     /\ initRequests' = initRequests + m.requests
    /\ mainPc' = "audioMerged"
    /\ UNCHANGED <<fnVars, lockVars, audioRet, segments, maxConcurrent,
                   maxRetries, dlVars, taskVars, syncVars, collVars, fsVars,
                   launched>>

\* audioPlaylist.InitSegment = playlist.AudioInit;
\* audioDownloader.playlist = &audioPlaylist;
\* err = MergeSegmentsWithInit(audioSegments, audioDownloader, tempAudioFile)
MainMergeAudio ==
    /\ mainPc = "merged"
    /\ mergeErr = NoErr
    /\ MergesAudio
    /\ LET audioPlaylist == [playlist EXCEPT !.InitSegment = playlist.AudioInit]
       IN  /\ audioDownloader' = [audioDownloader EXCEPT !.playlist = audioPlaylist]
           /\ \E plan \in InitMergePlans(Len(audioRet.records),
                                         audioPlaylist.InitSegment,
                                         audioDownloader.maxRetries) :
                 LET m == MergeSegmentsWithInit(audioRet.records,
                                                audioPlaylist.InitSegment,
                                                audioDownloader.maxRetries,
                                                audioOutput, plan)
                 IN  /\ audioOutput' = m.out
                     /\ mergeErr' = m.err
                     /\ initRequests' = initRequests + m.requests
    /\ mainPc' = "audioMerged"
    /\ UNCHANGED <<fnVars, lockVars, audioRet, cfgVars, dlVars, taskVars, syncVars, collVars,
                   fsVars, launched>>

\* The clean-up of both downloaders after the merges, failed or not; after a
\* failed audio merge also os.Remove(tempVideoFile)
MainCleanup ==
    /\ \/ mainPc = "merged" /\ (mergeErr # NoErr \/ ~MergesAudio)
       \/ mainPc = "audioMerged"
    /\ dirs' = CleanupBoth.dirs
    /\ files' = CleanupBoth.files
    /\ output' = IF mainPc = "audioMerged" /\ mergeErr # NoErr
                 THEN NoFile ELSE output
    /\ mainPc' = "exit"
    /\ UNCHANGED <<fnVars, auVars, lockVars, netVars, cfgVars, dlVars, taskVars, syncVars, collVars,
                   launched, mergeErr>>

Next ==
    \/ Launch
    \/ \E i \in Indices : Acquire(i)
    \/ \E i \in Indices : Fetch(i)
    \/ \E i \in Indices : Decrypt(i)
    \/ \E i \in Indices : CheckAndSwitch(i)
    \/ \E i \in Indices : ShouldUseDisk(i)
    \/ \E i \in Indices : StoreOnDisk(i)
    \/ \E i \in Indices : StoreInMemory(i)
    \/ \E i \in Indices : UpdateProgress(i)
    \/ \E i \in Indices : Publish(i)
    \/ \E i \in Indices : Release(i)
    \/ \E i \in Indices : Done(i)
    \/ CloseResults
    \/ Collect
    \/ Return
    \/ MainDownloadFailed
    \/ MainMerge
    \/ MainCleanup

Spec == Init /\ [][Next]_vars

\* -------------------------------------------- main with both tracks
\* The playlists main is given: transport stream or fragmented, with or
\* without the initialization segments' locators and a separate audio track
MainPlaylists ==
    {[PlainPlaylist EXCEPT !.IsFragmented = fr, !.InitSegment = in,
                           !.HasAudio = au, !.AudioInit = ai,
                           !.AudioSegments = as] :
        fr \in BOOLEAN, in \in {"", "init.mp4"}, au \in BOOLEAN,
        ai \in {"", "audio_init.mp4"},
        as \in {[k \in 1..n |-> k - 1] : n \in 0..MaxSegs}}

InitMain ==
    /\ segments \in {[k \in 1..n |-> k - 1] : n \in 1..MaxSegs}
    /\ maxConcurrent = 1
    /\ maxRetries = 0
    /\ playlist \in MainPlaylists
    /\ RunInit
    /\ callNet = <<>>
    /\ callRetries = 0
    /\ callArgs = Nil
    /\ call = NotCalled

NextMain ==
    \/ MainVideoDownload
    \/ MainDownloadFailed
    \/ MainAudioDownload
    \/ MainAudioDownloadFailed
    \/ MainMerge
    \/ MainMergeAudio
    \/ MainCleanup

SpecMain == InitMain /\ [][NextMain]_vars

\* ======================================================================
\* Properties
\* ======================================================================
HasData(rec) == rec.Data # Nil
HasFile(rec) == rec.FilePath # NoPath
HasError(rec) == rec.Error # NoErr

\* DownloadSegments has returned
Returned == mainPc \in {"returned", "merged", "exit"}
\* the goroutines that ended with a failure record
Failed == {i \in Indices : pc[i] = "done" /\ HasError(segmentData[i])}
\* goroutines between taking and giving back a semaphore slot
Holding == {i \in Indices : pc[i] \notin {"unlaunched", "acquire", "wgDone", "done"}}
Fetching == {i \in Indices : pc[i] = "fetch"}

\* C1: for a concurrency limit >= 1, the goroutines between acquiring and
\* releasing a semaphore slot, and so the fetches in flight, are never more
\* than maxConcurrent (and the semaphore holds exactly one token for each).
C1_ConcurrencyBound ==
    maxConcurrent >= 1 =>
        /\ Cardinality(Holding) <= maxConcurrent
        /\ Cardinality(Fetching) <= maxConcurrent
        /\ semaphore = Cardinality(Holding)

\* C1 witness: the limit is reached with a fetch in flight while another
\* goroutine waits for a slot
C1_Witness ==
    /\ maxConcurrent >= 1
    /\ Cardinality(Holding) = maxConcurrent
    /\ Fetching # {}
    /\ \E i \in Indices : pc[i] = "acquire"

\* C2: a run in which no goroutine failed returns exactly N records, the
\* record at position i has Index i and exactly one of Data and FilePath;
\* and no position is written twice: at any time at most one record of an
\* index is in the channel, and none once its position has been written.
C2_AllRecords ==
    /\ (Returned /\ Failed = {}) =>
           /\ ret.err = NoErr
           /\ Len(ret.records) = N
           /\ \A i \in Indices :
                 /\ At(ret.records, i).Index = i
                 /\ HasData(At(ret.records, i)) # HasFile(At(ret.records, i))
    /\ \A k, m \in 1..Len(resultChan) :
           resultChan[k].Index = resultChan[m].Index => k = m
    /\ \A k \in 1..Len(resultChan) :
           /\ resultChan[k].Index \in Indices
           /\ At(results, resultChan[k].Index) = ZeroSegmentData

\* C2 witness: a successful run of at least two segments has returned, with a
\* memory-backed and a disk-backed record
C2_Witness ==
    /\ mainPc = "returned"
    /\ Failed = {}
    /\ N >= 2
    /\ \E i, j \in Indices : HasData(At(ret.records, i)) /\ HasFile(At(ret.records, j))

\* C3: when all segments succeeded and the merge succeeded, the destination
\* holds the segments' payloads in index order 0..N-1, whatever the order of
\* completion and whichever records are memory-backed or disk-backed.
C3_MergeInOrder ==
    (mainPc \in {"merged", "exit"} /\ ret.err = NoErr /\ mergeErr = NoErr) =>
        /\ output.exists
        /\ Len(output.content) = N
        /\ \A i \in Indices :
              /\ At(output.content, i) = data[i]
              /\ At(output.content, i).seg = i
              /\ At(output.content, i).form =
                    IF playlist.Encrypted THEN "plain" ELSE "raw"

\* C3 witness: a merge has succeeded on a run that switched to disk part-way,
\* with a later segment stored (in memory) before an earlier one (on disk)
C3_Witness ==
    /\ mainPc = "merged"
    /\ ret.err = NoErr
    /\ mergeErr = NoErr
    /\ \E i, j \in Indices : i < j /\ HasFile(At(ret.records, i))
                                  /\ HasData(At(ret.records, j))

\* C4: DownloadSegments returns records if and only if no goroutine published
\* a failure; otherwise it returns no records and an error whose count is the
\* number of goroutines that published a failure.
C4_SuccessIffNoFailure ==
    Returned =>
        /\ (ret.err = NoErr) <=> (Failed = {})
        /\ Failed = {} => Len(ret.records) = N
        /\ Failed # {} => /\ ret.records = <<>>
                          /\ ret.err.count = Cardinality(Failed)

\* C4 witness: a run has returned in which some but not all segments failed
C4_Witness ==
    /\ mainPc = "returned"
    /\ Failed # {}
    /\ Failed # Indices

\* the smallest element of a non-empty set of integers
Min(S) == CHOOSE x \in S : \A y \in S : x <= y

\* goroutine i sends a failure record in this step
PublishesFailure(i) ==
    /\ pc[i] \in {"send", "sendErr"}
    /\ pc'[i] \notin {"send", "sendErr"}
    /\ HasError(segmentData[i])
\* the index of the failure record that was sent first (-1: none sent yet):
\* the collector has received those in errors before those still in the channel
FirstPublishedFailure ==
    LET waiting == SelectSeq(resultChan, HasError)
    IN  IF errors # <<>> THEN errors[1].index
        ELSE IF waiting # <<>> THEN waiting[1].Index
        ELSE -1

\* C5 (as claimed): the aggregate error names the smallest failed index
C5_NamesSmallestIndex ==
    (Returned /\ ret.err # NoErr) => ret.err.first.index = Min(Failed)

\* C5 (amended): the aggregate error names a failed segment, the one whose
\* failure record was sent on the result channel first: the first failure sent
\* fixes the index, nothing sent or collected later changes it, and it is the
\* index the returned error names.
C5_NamesFirstPublished ==
    /\ [][\A i \in Indices :
             (PublishesFailure(i) /\ FirstPublishedFailure = -1)
                 => FirstPublishedFailure' = i]_vars
    /\ [][FirstPublishedFailure # -1
             => FirstPublishedFailure' = FirstPublishedFailure]_vars
    /\ []((Returned /\ ret.err # NoErr) =>
             /\ ret.err.first.index = FirstPublishedFailure
             /\ ret.err.first.index \in Failed)

\* C5 witness: two segments failed and the error names the larger index
C5_Witness ==
    /\ mainPc = "returned"
    /\ ret.err # NoErr
    /\ ret.err.count >= 2
    /\ ret.err.first.index > Min(Failed)

\* C6: every locator gets exactly one goroutine (the WaitGroup counts exactly
\* the live ones), a goroutine holding a slot can always make its fetch
\* whatever happened to the others, and DownloadSegments has returned only
\* when every goroutine is done and its record has been collected.
C6_NoEarlyCancellation ==
    /\ launched \in 0..N
    /\ \A i \in Indices : (pc[i] = "unlaunched") <=> (i >= launched)
    /\ wg = Cardinality({i \in Indices : pc[i] \notin {"unlaunched", "done"}})
    /\ \A i \in Indices : pc[i] = "fetch" => ENABLED Fetch(i)
    /\ Returned =>
          /\ launched = N
          /\ resultChan = <<>>
          /\ \A i \in Indices :
                /\ pc[i] = "done"
                /\ segmentData[i].Index = i
                /\ IF HasError(segmentData[i])
                   THEN Cardinality({k \in 1..Len(errors) : errors[k].index = i}) = 1
                   ELSE /\ At(results, i) = segmentData[i]
                        /\ HasData(segmentData[i]) \/ HasFile(segmentData[i])

\* C6 witness: one goroutine has ended in failure and another, which took
\* its slot afterwards or alongside, is fetching
C6_Witness ==
    \E i, j \in Indices :
        /\ pc[i] = "done"
        /\ HasError(segmentData[i])
        /\ pc[j] = "fetch"

\* goroutine i has read the mode as Disk
ObservedDisk(i) ==
    \/ pc[i] = "writeFile"
    \/ HasFile(segmentData[i])
    \/ segmentData[i].Error = [msg |-> "failed to write temp file"]
\* goroutine i reads the mode in this step
ReadsMode(i) == pc[i] = "mode" /\ pc'[i] # "mode"
\* goroutine i stores its segment in memory / on disk in this step
StoresInMemory(i) == pc[i] = "storeMem" /\ pc'[i] # "storeMem"
StoresOnDisk(i) == pc[i] = "writeFile" /\ pc'[i] # "writeFile"

ChecksSize(i) == pc[i] = "check" /\ pc'[i] # "check"
SwitchesToDisk == ~useDiskStorage /\ useDiskStorage'

C9_DiskAtOrAboveThreshold ==
    (Returned /\ ret.err = NoErr /\ totalSize >= MemoryThreshold)
        => useDiskStorage

\* ------------------------------------- DownloadContentWithRetry on its own
\* What the server may answer to one request
NetResponses ==
    {Response(TRUE, 0, FALSE, Nil), Response(FALSE, StatusOK, TRUE, Nil)}
        \cup {Response(FALSE, StatusOK, FALSE, Chunk(0, n)) : n \in {8, 16}}
        \cup {Response(FALSE, st, FALSE, Nil) : st \in {204, 404, 500}}

InitRetry ==
    /\ segments = <<0>>
    /\ maxConcurrent = 1
    /\ maxRetries = 0
    /\ playlist = PlainPlaylist
    /\ RunInit
    /\ callNet \in [1..(MaxRetries + 1) -> NetResponses]
    /\ callRetries \in -1..MaxRetries
    /\ callArgs = Nil
    /\ call = NotCalled

CallRetry ==
    /\ ~call.called
    /\ LET r == DownloadContentWithRetry(callNet, callRetries)
       IN  call' = [called |-> TRUE, data |-> r.data, err |-> r.err,
                    attempts |-> r.attempts, slept |-> r.slept]
    /\ UNCHANGED <<auVars, lockVars, netVars, cfgVars, dlVars, taskVars, syncVars, collVars, fsVars,
                   launched, mainPc, mergeErr, callNet, callRetries, callArgs>>

NextRetry == CallRetry

SpecRetry == InitRetry /\ [][NextRetry]_vars

\* a response that DownloadContent turns into data
Succeeds(resp) == ~resp.doErr /\ resp.status = StatusOK /\ ~resp.readErr

\* C10: with maxRetries = m >= 0 at most m + 1 requests are made; the data
\* returned are those of the first successful response and no request
\* follows it; if all m + 1 fail, the error returned wraps the error of the
\* last one; a response with a status other than 200 is never a success.
C10_RetryAttempts ==
    (call.called /\ callRetries >= 0) =>
        LET m == callRetries
            ok == {k \in 1..(m + 1) : Succeeds(callNet[k])}
            last == callNet[m + 1]
        IN  /\ call.attempts <= m + 1
            /\ ok # {} => /\ call.err = NoErr
                          /\ call.data = callNet[Min(ok)].body
                          /\ call.attempts = Min(ok)
            /\ ok = {} => /\ call.attempts = m + 1
                          /\ call.data = Nil
                          /\ call.err # NoErr
                          /\ call.err.cause # NoErr
                          /\ last.doErr => call.err.cause.msg = "transport"
                          /\ (~last.doErr /\ last.status # StatusOK) =>
                                call.err.cause = [msg |-> "status code",
                                                  code |-> last.status]
                          /\ (~last.doErr /\ last.status = StatusOK) =>
                                call.err.cause.msg = "read body"
            /\ \A k \in 1..call.attempts :
                  (~callNet[k].doErr /\ callNet[k].status # StatusOK) =>
                      (k < call.attempts \/ call.err # NoErr)

\* C10 witness: one retry allowed, the first response is a 404 and the
\* second succeeds
C10_Witness ==
    /\ call.called
    /\ callRetries = 1
    /\ callNet[1].status = 404
    /\ Succeeds(callNet[2])
    /\ call.attempts = 2
    /\ call.err = NoErr

\* the sum of a sequence of numbers
RECURSIVE SumSeq(_)
SumSeq(seq) == IF seq = <<>> THEN 0 ELSE Head(seq) + SumSeq(Tail(seq))

DownloadSegmentsOutcomesCover ==
    mainPc = "returned" =>
        \E o \in DownloadSegmentsOutcomes(segments, TempDirName, "video") :
            /\ (o.err = NoErr) <=> (ret.err = NoErr)
            /\ o.tempDir = tempDir
            /\ o.dirs = dirs
            /\ DOMAIN o.files = DOMAIN files
            /\ Len(o.records) = Len(ret.records)
            /\ \A k \in 1..Len(o.records) :
                  /\ o.records[k].Index = ret.records[k].Index
                  /\ o.records[k].FilePath = ret.records[k].FilePath
                  /\ HasData(o.records[k]) <=> HasData(ret.records[k])

\* the temp directories the downloaders of this run have made and not removed
TempDirsLeft == dirs \cap {TempDirName, AudioTempDirName}

\* C12: when main has left the download-and-merge part, by os.Exit(1) after a
\* failed video download, audio download or merge of either track or on its
\* way to the conversion after the merges succeeded, no temp directory of
\* either downloader and no temp file is left.
C12_TempDirsRemoved ==
    mainPc = "exit" => (TempDirsLeft = {} /\ DOMAIN files = {})

\* C12 witness: both downloaders had made their temp directory and the audio
\* merge failed; main is about to exit
C12_Witness ==
    /\ mainPc = "exit"
    /\ tempDir = TempDirName
    /\ audioDownloader # Nil
    /\ audioDownloader.tempDir = AudioTempDirName
    /\ audioRet.err = NoErr
    /\ audioOutput.exists
    /\ mergeErr # NoErr

\* C13: CleanupTempFiles removes the downloader's temp directory and every
\* file in it and nothing else; it changes nothing when the downloader never
\* made a directory, or when DownloadSegments has removed it already on its
\* failure path, or when CleanupTempFiles has run before: calling it again
\* leaves what one call leaves.  (It returns nothing, so it has no way to fail.)
C13_CleanupIdempotent ==
    LET now == [dirs |-> dirs, files |-> files]
        once == CleanupTempFiles(tempDir, dirs, files)
        twice == CleanupTempFiles(tempDir, once.dirs, once.files)
    IN  /\ twice = once
        /\ tempDir = NoDir => once = now
        /\ tempDir # NoDir =>
              /\ once.dirs = dirs \ {tempDir}
              /\ DOMAIN once.files = {p \in DOMAIN files : p.dir # tempDir}
              /\ \A p \in DOMAIN once.files : once.files[p] = files[p]
        /\ (mainPc = "returned" /\ ret.err # NoErr) => once = now
        /\ mainPc = "exit" => once = now

\* C13 witness: DownloadSegments failed after it had made its temp directory,
\* removed it, and main has called CleanupTempFiles on top of that
C13_Witness ==
    /\ mainPc = "exit"
    /\ ret.err # NoErr
    /\ tempDir # NoDir
    /\ useDiskStorage

\* ------------------------------------------------------------- merging
\* C14 (as claimed): when a merge has returned an error, its destination has
\* not been created or truncated and holds no segment's bytes
C14_NoPartialMerge ==
    /\ (mainPc = "merged" /\ mergeErr # NoErr) => output = NoFile
    /\ (mainPc = "audioMerged" /\ mergeErr # NoErr) => audioOutput = NoFile

\* the payload a record stands for: its temp file's contents or its Data
Payload(rec) == IF HasFile(rec) THEN files[rec.FilePath] ELSE rec.Data

\* init followed by the payloads of the records, in index order
InitThenMedia(init, recs) ==
    [k \in 1..(Len(recs) + 1) |-> IF k = 1 THEN init ELSE Payload(recs[k - 1])]

\* C15: MergeSegmentsWithInit fails and leaves the destination uncreated when
\* the initialization locator is absent; when it succeeds the destination
\* holds the initialization segment's bytes followed by the payload of media
\* record 0, 1, .., N-1 in that order, for the video and for the audio track.
C15_InitThenMedia ==
    /\ (mainPc = "merged" /\ playlist.IsFragmented) =>
          /\ playlist.InitSegment = "" => (mergeErr # NoErr /\ output = NoFile)
          /\ mergeErr = NoErr =>
                /\ output.exists
                /\ output.content =
                      InitThenMedia(InitChunk(playlist.InitSegment), ret.records)
                /\ \A i \in Indices :
                      /\ output.content[i + 2].seg = i
                      /\ output.content[i + 2].track = "video"
    /\ mainPc = "audioMerged" =>
          /\ playlist.AudioInit = "" => (mergeErr # NoErr /\ audioOutput = NoFile)
          /\ mergeErr = NoErr =>
                /\ audioOutput.exists
                /\ audioOutput.content =
                      InitThenMedia(InitChunk(playlist.AudioInit), audioRet.records)
                /\ \A k \in 1..Len(audioRet.records) :
                      /\ audioOutput.content[k + 1].seg = k - 1
                      /\ audioOutput.content[k + 1].track = "audio"

\* C15 witness: the audio track of a fragmented playlist has been merged from
\* a disk-backed and a memory-backed record, after the video track
C15_Witness ==
    /\ mainPc = "audioMerged"
    /\ mergeErr = NoErr
    /\ Len(output.content) >= 2
    /\ \E j, k \in 1..Len(audioRet.records) :
          HasFile(audioRet.records[j]) /\ HasData(audioRet.records[k])

\* ------------------------------------------------------------ records
\* how many of Data, FilePath and Error a record has set
FormsSet(rec) ==
    (IF HasData(rec) THEN 1 ELSE 0) + (IF HasFile(rec) THEN 1 ELSE 0)
        + (IF HasError(rec) THEN 1 ELSE 0)

\* goroutine i sends its record in this step
Publishes(i) == pc[i] \in {"send", "sendErr"} /\ pc'[i] \notin {"send", "sendErr"}

\* C16: every record a goroutine sends, and so every record in the channel
\* and every record collected, has exactly one of Data, FilePath and Error
\* set; the record of a failed temp-file write has the Error alone.
C16_ExactlyOneForm ==
    /\ [][\A i \in Indices :
             Publishes(i) =>
                 /\ resultChan' = Append(resultChan, segmentData[i])
                 /\ FormsSet(segmentData[i]) = 1
                 /\ segmentData[i].Index = i]_vars
    /\ [](\A k \in 1..Len(resultChan) : FormsSet(resultChan[k]) = 1)
    /\ [](\A i \in Indices :
             At(results, i) # ZeroSegmentData =>
                 (FormsSet(At(results, i)) = 1 /\ ~HasError(At(results, i))))

\* C16 witness: the record of a failed temp-file write is in the channel
C16_Witness ==
    \E k \in 1..Len(resultChan) :
        resultChan[k].Error = [msg |-> "failed to write temp file"]

\* ----------------------------------------------- DecryptSegment on its own
\* lengths of the encrypted data: empty, misaligned, one block, two blocks
DataLengths == {0, 15, 16, 32}
\* lengths of the key: none, too short, and the three AES key sizes
KeyLengths == {0, 8, 16, 24, 32}
\* the characters of 2 * n hex digits spelling n bytes of value b
HexOf(n, b) == [k \in 1..(2 * n) |-> IF k % 2 = 1 THEN b \div 16 ELSE b % 16]
\* IV strings: none; sixteen bytes; the sixteen bytes 0, .., 0, 1; fifteen and
\* seventeen bytes; an odd number of digits; a character that is no hex digit
IVStrings ==
    {NoIV, HexOf(16, 171), [HexOf(16, 0) EXCEPT ![32] = 1], HexOf(15, 171),
     HexOf(17, 171), Tail(HexOf(16, 171)), [HexOf(16, 171) EXCEPT ![7] = NotHex]}
\* segment indices: around the byte boundaries, up to the largest 32-bit int
SegmentIndices == {0, 1, 255, 256, 65535, 65536, 16777215, 16777216, 2147483647}

InitDecrypt ==
    /\ segments = <<0>>
    /\ maxConcurrent = 1
    /\ maxRetries = 0
    /\ playlist = PlainPlaylist
    /\ RunInit
    /\ callNet = <<>>
    /\ callRetries = 0
    /\ callArgs \in [encryptedData : {Chunk(0, n) : n \in DataLengths},
                     key : KeyLengths, iv : IVStrings,
                     segmentIndex : SegmentIndices]
    /\ call = NotCalled

CallDecrypt ==
    /\ ~call.called
    /\ LET r == DecryptSegment(callArgs.encryptedData, callArgs.key,
                               callArgs.iv, callArgs.segmentIndex)
       IN  call' = [called |-> TRUE, data |-> r.data, err |-> r.err, iv |-> r.iv]
    /\ UNCHANGED <<auVars, lockVars, netVars, cfgVars, dlVars, taskVars, syncVars, collVars, fsVars,
                   launched, mainPc, mergeErr, callNet, callRetries, callArgs>>

NextDecrypt == CallDecrypt

SpecDecrypt == InitDecrypt /\ [][NextDecrypt]_vars

\* C17: a call on data whose length is no multiple of 16 returns an error and
\* no plaintext, whatever the key and the IV; a call that succeeds returns
\* plaintext of the length of its input.
C17_MisalignedFails ==
    call.called =>
        /\ callArgs.encryptedData.len % 16 # 0 =>
              (call.err # NoErr /\ call.data = Nil)
        /\ call.err = NoErr =>
              /\ call.data # Nil
              /\ call.data.len = callArgs.encryptedData.len
              /\ call.data.form = "plain"
        /\ call.err # NoErr => call.data = Nil

\* C17 witness: misaligned data with a 16-byte key and a well-formed IV were
\* rejected for their length
C17_Witness ==
    /\ call.called
    /\ callArgs.encryptedData.len = 15
    /\ callArgs.key = 16
    /\ callArgs.iv = HexOf(16, 171)
    /\ call.err = [msg |-> "not a multiple of block size"]

\* C18 (as claimed): a call with a key of any length other than 16 returns
\* an error and no plaintext
C18_KeyExactly16 ==
    (call.called /\ callArgs.key # 16) => (call.err # NoErr /\ call.data = Nil)

\* the number whose big-endian encoding the bytes are
RECURSIVE BigEndian(_)
BigEndian(bytes) ==
    IF bytes = <<>> THEN 0
    ELSE BigEndian(SubSeq(bytes, 1, Len(bytes) - 1)) * 256 + bytes[Len(bytes)]

\* C19: with no IV string, the IV the cipher gets is sixteen bytes, twelve
\* zeros and then the four bytes of the segment index, most significant
\* first; it differs from the IV derived for any other index.
C19_DerivedIV ==
    (call.called /\ callArgs.iv = NoIV /\ callArgs.key \in AESKeySizes) =>
        /\ Len(call.iv) = 16
        /\ \A k \in 1..16 : call.iv[k] \in 0..255
        /\ \A k \in 1..12 : call.iv[k] = 0
        /\ BigEndian(SubSeq(call.iv, 13, 16)) = callArgs.segmentIndex
        /\ \A j \in SegmentIndices :
              j # callArgs.segmentIndex => DerivedIV(j) # call.iv

\* C19 witness: a call without IV string for an index that fills all four
\* bytes has succeeded
C19_Witness ==
    /\ call.called
    /\ callArgs.iv = NoIV
    /\ callArgs.segmentIndex = 2147483647
    /\ call.err = NoErr
    /\ call.iv = [k \in 1..16 |-> IF k <= 12 THEN 0 ELSE IF k = 13 THEN 127 ELSE 255]

\* an IV string of 32 hex digits
WellFormedIV(iv) == Len(iv) = 32 /\ \A k \in 1..Len(iv) : iv[k] \in 0..15

\* C20: with an IV string, the call fails unless the string is 32 hex digits
\* (and no IV reaches the cipher); whenever an IV reaches the cipher it is
\* the sixteen bytes the string spells, not one derived from the index.
C20_ExplicitIV ==
    (call.called /\ callArgs.iv # NoIV) =>
        /\ ~WellFormedIV(callArgs.iv) =>
              (call.err # NoErr /\ call.data = Nil /\ call.iv = Nil)
        /\ call.iv # Nil =>
              /\ WellFormedIV(callArgs.iv)
              /\ call.iv = [k \in 1..16 |-> callArgs.iv[2 * k - 1] * 16
                                               + callArgs.iv[2 * k]]
        /\ (callArgs.key \in AESKeySizes /\ WellFormedIV(callArgs.iv)) =>
              call.iv # Nil

\* C20 witness: an IV string of 34 hex digits was rejected for its length
C20_Witness ==
    /\ call.called
    /\ callArgs.iv = HexOf(17, 171)
    /\ callArgs.key = 16
    /\ callArgs.encryptedData.len = 16
    /\ call.err = [msg |-> "invalid IV length"]

\* ------------------------------------------------------- storage errors
\* the record of goroutine i is a storage failure: the temp directory could
\* not be made or the temp file could not be written
StorageFailed(i) ==
    \/ segmentData[i].Error = [msg |-> "failed to write temp file"]
    \/ /\ HasError(segmentData[i])
       /\ segmentData[i].Error.msg = "storage check failed"
\* goroutine i makes its fetch in this step
Fetches(i) == pc[i] = "fetch" /\ pc'[i] # "fetch"

\* C21 (as claimed): once a goroutine has hit a storage error no other
\* segment is fetched or stored
C21_StorageErrorAborts ==
    [][\A i, j \in Indices :
          (i # j /\ StorageFailed(j)) =>
              (~Fetches(i) /\ ~StoresInMemory(i) /\ ~StoresOnDisk(i))]_vars

\* C21 (amended): a storage error fails the goroutine it happens in and no
\* other: its record is a failure without payload, the goroutines still to
\* fetch can go on to fetch, and the run ends only when all goroutines are
\* done; it then returns an error and no records, and has removed the temp
\* directory with everything the other goroutines stored in it.
C21_StorageErrorFailsRun ==
    /\ \A j \in Indices :
          StorageFailed(j) =>
              /\ segmentData[j] = ErrorRecord(j, segmentData[j].Error)
              /\ \A i \in Indices : pc[i] = "fetch" => ENABLED Fetch(i)
              /\ Returned =>
                    /\ \A i \in Indices : pc[i] = "done"
                    /\ ret.err # NoErr
                    /\ ret.records = <<>>
                    /\ tempDir \notin dirs
                    /\ DOMAIN files = {}

\* C21 witness: one goroutine has ended with a storage error and another
\* has yet to store its segment
C21_Witness ==
    \E i, j \in Indices :
        /\ pc[j] = "done"
        /\ StorageFailed(j)
        /\ pc[i] \in {"fetch", "decrypt", "check", "mode", "storeMem", "writeFile"}

\* ------------------------------------------------- parsing a playlist
\* A line of a playlist file, after TrimSpace: an #EXT-X-KEY tag (its METHOD,
\* whether it has a well-formed URI="..." and an IV=0x...), a line containing
\* #EXT-X-STREAM-INF, any other comment or an empty line, or a locator
\* (absolute: it has a scheme).
KeyLines ==
    {[tag |-> "KEY", method |-> "AES-128", uri |-> TRUE, iv |-> FALSE],
     [tag |-> "KEY", method |-> "AES-128", uri |-> FALSE, iv |-> TRUE],
     [tag |-> "KEY", method |-> "SAMPLE-AES", uri |-> TRUE, iv |-> FALSE]}
StreamInfLine == [tag |-> "STREAM-INF"]
CommentLine == [tag |-> "#"]
LocatorLine(absolute) == [tag |-> "URL", absolute |-> absolute]
PlaylistLines ==
    KeyLines \cup {StreamInfLine, CommentLine, LocatorLine(TRUE),
                   LocatorLine(FALSE)}

\* a key: where its bytes came from and how many they are
KeyBytes(from, len) == [from |-> from, len |-> len]

\* playlist := &M3U8Playlist{...} at the head of parseM3U8Content; BaseURL is
\* kept as its scheme
NewPlaylist(scheme, customKey) ==
    [BaseURL |-> scheme, Segments |-> <<>>, IsStream |-> FALSE,
     Encrypted |-> FALSE, KeyURL |-> "", KeyIV |-> NoIV, Key |-> Nil,
     CustomKey |-> customKey]

\* Faulty variant: the key is downloaded even when a custom key was given
parseKeyTag_AlwaysDownload(line, pl, keyResp) ==
    IF line.method # "AES-128"
    THEN [playlist |-> pl, err |-> [msg |-> "unsupported encryption method"],
          requests |-> 0]
    ELSE IF ~line.uri
    THEN [playlist |-> [pl EXCEPT !.Encrypted = TRUE],
          err |-> [msg |-> "no URI found in KEY tag"], requests |-> 0]
    ELSE LET p == [pl EXCEPT !.Encrypted = TRUE, !.KeyURL = "key",
                             !.KeyIV = IF line.iv THEN <<10, 11>> ELSE @]
             r == DownloadContent(keyResp)
         IN  IF r.err # NoErr
             THEN [playlist |-> p,
                   err |-> [msg |-> "failed to download encryption key"],
                   requests |-> 1]
             ELSE IF r.data.len # 16
             THEN [playlist |-> p, err |-> [msg |-> "invalid key length"],
                   requests |-> 1]
             ELSE [playlist |-> [p EXCEPT !.Key = r.data], err |-> NoErr,
                   requests |-> 1]

\* Faulty variant: a downloaded key is kept whatever its length
parseKeyTag_AnyLength(line, pl, keyResp) ==
    IF line.method # "AES-128"
    THEN [playlist |-> pl, err |-> [msg |-> "unsupported encryption method"],
          requests |-> 0]
    ELSE IF ~line.uri
    THEN [playlist |-> [pl EXCEPT !.Encrypted = TRUE],
          err |-> [msg |-> "no URI found in KEY tag"], requests |-> 0]
    ELSE LET p == [pl EXCEPT !.Encrypted = TRUE, !.KeyURL = "key",
                             !.KeyIV = IF line.iv THEN <<10, 11>> ELSE @]
             r == DownloadContent(keyResp)
         IN  IF pl.CustomKey # Nil
             THEN [playlist |-> p, err |-> NoErr, requests |-> 0]
             ELSE IF r.err # NoErr
             THEN [playlist |-> p,
                   err |-> [msg |-> "failed to download encryption key"],
                   requests |-> 1]
             ELSE [playlist |-> [p EXCEPT !.Key = r.data], err |-> NoErr,
                   requests |-> 1]

\* parseKeyTag(line, baseURL, playlist), given the key server's answer: the
\* playlist afterwards, the error, and the number of requests made for the key
parseKeyTag(line, pl, keyResp) ==
    IF line.method # "AES-128"
    THEN [playlist |-> pl, err |-> [msg |-> "unsupported encryption method"],
          requests |-> 0]
    ELSE IF ~line.uri
    THEN [playlist |-> [pl EXCEPT !.Encrypted = TRUE],
          err |-> [msg |-> "no URI found in KEY tag"], requests |-> 0]
    ELSE LET p == [pl EXCEPT !.Encrypted = TRUE, !.KeyURL = "key",
                             !.KeyIV = IF line.iv THEN <<10, 11>> ELSE @]
             r == DownloadContent(keyResp)
         IN  IF pl.CustomKey # Nil
             THEN [playlist |-> p, err |-> NoErr, requests |-> 0]
             ELSE IF r.err # NoErr
             THEN [playlist |-> p,
                   err |-> [msg |-> "failed to download encryption key"],
                   requests |-> 1]
             ELSE IF r.data.len # 16
             THEN [playlist |-> p, err |-> [msg |-> "invalid key length"],
                   requests |-> 1]
             ELSE [playlist |-> [p EXCEPT !.Key = r.data], err |-> NoErr,
                   requests |-> 1]

\* Faulty variant: a relative locator is kept as it is when there is no base
RelativeWithoutBase_Accept(pl, line) == FALSE

\* baseURL.Scheme == "file" && !isAbsoluteURL(line)
RelativeWithoutBase(pl, line) == pl.BaseURL = "file" /\ ~line.absolute

\* parseM3U8Content from line k on, with the playlist built and the key
\* requests made so far.  env gives what the outside does: whether reading
\* the input fails after the given lines (readErr), the key server's answer
\* (keyResp), and for a master playlist the answer to the request for its
\* first variant (variant: whether it is served, and its lines), which is
\* parsed in turn by ParseM3U8WithKey.
RECURSIVE parseM3U8Content(_, _, _, _, _)
parseM3U8Content(lines, k, pl, requests, env) ==
    IF k <= Len(lines)
    THEN LET line == lines[k]
         IN  IF line.tag = "KEY"
             THEN LET r == parseKeyTag(line, pl, env.keyResp)
                  IN  parseM3U8Content(lines, k + 1, r.playlist,
                                       requests + r.requests, env)
             ELSE IF line.tag = "STREAM-INF"
             THEN parseM3U8Content(lines, k + 1, [pl EXCEPT !.IsStream = TRUE],
                                   requests, env)
             ELSE IF line.tag = "#"
             THEN parseM3U8Content(lines, k + 1, pl, requests, env)
             ELSE IF RelativeWithoutBase(pl, line)
             THEN [playlist |-> Nil, requests |-> requests,
                   err |-> [msg |-> "found relative URL but no base URL provided",
                            line |-> k]]
             ELSE parseM3U8Content(lines, k + 1,
                                   [pl EXCEPT !.Segments = Append(@, line)],
                                   requests, env)
    ELSE IF env.readErr
    THEN [playlist |-> Nil, requests |-> requests,
          err |-> [msg |-> "error reading playlist"]]
    ELSE IF pl.IsStream /\ Len(pl.Segments) > 0
    THEN IF ~env.variant.served
         THEN [playlist |-> Nil, requests |-> requests,
               err |-> [msg |-> "failed to download playlist"]]
         ELSE parseM3U8Content(env.variant.lines, 1,
                               NewPlaylist("https", pl.CustomKey), requests,
                               [env EXCEPT !.readErr = FALSE])
    ELSE IF Len(pl.Segments) = 0
    THEN [playlist |-> Nil, requests |-> requests,
          err |-> [msg |-> "no segments found in playlist"]]
    ELSE [playlist |-> IF pl.CustomKey # Nil /\ pl.Encrypted
                       THEN [pl EXCEPT !.Key = pl.CustomKey] ELSE pl,
          requests |-> requests, err |-> NoErr]

\* ParseM3U8FromFileWithKey(filePath, baseURLStr, customKey) on a file of
\* these lines
ParseM3U8FromFileWithKey(lines, baseURLStr, customKey, env) ==
    parseM3U8Content(lines, 1,
                     NewPlaylist(IF baseURLStr # "" THEN "https" ELSE "file",
                                 customKey),
                     0, env)

\* what the key server may answer: not found, a 16-byte key, a 24-byte key
KeyResponses ==
    {Response(FALSE, 404, FALSE, Nil)}
        \cup {Response(FALSE, StatusOK, FALSE, KeyBytes("server", n)) : n \in {16, 24}}
\* what the request for a master playlist's first variant may give: nothing,
\* or a media playlist (one without #EXT-X-STREAM-INF)
VariantAnswers ==
    {[served |-> FALSE, lines |-> <<>>],
     [served |-> TRUE, lines |-> <<>>],
     [served |-> TRUE,
      lines |-> <<[tag |-> "KEY", method |-> "AES-128", uri |-> TRUE, iv |-> FALSE],
                  LocatorLine(FALSE)>>]}
\* the files: up to MaxLines lines
PlaylistFiles == UNION {[1..n -> PlaylistLines] : n \in 0..MaxLines}

InitParse ==
    /\ segments = <<0>>
    /\ maxConcurrent = 1
    /\ maxRetries = 0
    /\ playlist = PlainPlaylist
    /\ RunInit
    /\ callNet = <<>>
    /\ callRetries = 0
    /\ callArgs \in [lines : PlaylistFiles,
                     baseURLStr : {"", "https://example.com/"},
                     customKey : {Nil, KeyBytes("custom", 16)},
                     env : [readErr : BOOLEAN, keyResp : KeyResponses,
                            variant : VariantAnswers]]
    /\ call = NotCalled

CallParse ==
    /\ ~call.called
    /\ LET r == ParseM3U8FromFileWithKey(callArgs.lines, callArgs.baseURLStr,
                                         callArgs.customKey, callArgs.env)
       IN  call' = [called |-> TRUE, playlist |-> r.playlist, err |-> r.err,
                    requests |-> r.requests]
    /\ UNCHANGED <<auVars, lockVars, netVars, cfgVars, dlVars, taskVars, syncVars, collVars, fsVars,
                   launched, mainPc, mergeErr, callNet, callRetries, callArgs>>

NextParse == CallParse

SpecParse == InitParse /\ [][NextParse]_vars

\* the file is a master playlist: it has a #EXT-X-STREAM-INF line
IsMaster(lines) == \E k \in 1..Len(lines) : lines[k].tag = "STREAM-INF"
\* the positions of the locator lines
LocatorsOf(lines) == {k \in 1..Len(lines) : lines[k].tag = "URL"}
\* the lines that decide the playlist returned: the first variant's for a
\* master playlist
DecidingLines ==
    IF IsMaster(callArgs.lines) THEN callArgs.env.variant.lines ELSE callArgs.lines
\* ... has an #EXT-X-KEY tag with METHOD=AES-128
HasAES128Key(lines) ==
    \E k \in 1..Len(lines) : lines[k].tag = "KEY" /\ lines[k].method = "AES-128"

\* C22: with a custom key no request for the key is ever made, and the
\* playlist returned for an AES-128 encrypted file has the custom key as its
\* Key; without a custom key every AES-128 KEY tag with a URI is answered by
\* a request for the key, and the playlist's Key is set only to a downloaded
\* key of exactly 16 bytes.
C22_CustomKeySkipsDownload ==
    call.called =>
        /\ callArgs.customKey # Nil =>
              /\ call.requests = 0
              /\ (call.err = NoErr /\ HasAES128Key(DecidingLines)) =>
                    /\ call.playlist.Encrypted
                    /\ call.playlist.Key = callArgs.customKey
        /\ (callArgs.customKey = Nil /\ call.err = NoErr) =>
              /\ call.playlist.Key # Nil =>
                    /\ call.playlist.Key = callArgs.env.keyResp.body
                    /\ call.playlist.Key.len = 16
                    /\ call.requests > 0
              /\ call.requests >=
                    Cardinality({k \in 1..Len(DecidingLines) :
                                    /\ DecidingLines[k].tag = "KEY"
                                    /\ DecidingLines[k].method = "AES-128"
                                    /\ DecidingLines[k].uri})
              /\ (call.playlist.Encrypted /\ callArgs.env.keyResp.body # Nil
                     /\ callArgs.env.keyResp.body.len # 16) =>
                    call.playlist.Key = Nil

\* C22 witness: a file with an AES-128 KEY tag was parsed with a custom key
\* while the key server would have served another 16-byte key
C22_Witness ==
    /\ call.called
    /\ callArgs.customKey # Nil
    /\ callArgs.env.keyResp.status = StatusOK
    /\ callArgs.env.keyResp.body.len = 16
    /\ ~IsMaster(callArgs.lines)
    /\ \E k \in 1..Len(callArgs.lines) :
          callArgs.lines[k].tag = "KEY" /\ callArgs.lines[k].uri
    /\ call.err = NoErr
    /\ call.playlist.Key = KeyBytes("custom", 16)

\* the file was parsed with no base URL
NoBaseURL == call.called /\ callArgs.baseURLStr = ""
\* the relative locator lines of the file
RelativeLines ==
    {k \in LocatorsOf(callArgs.lines) : ~callArgs.lines[k].absolute}

\* C23 as stated: with no base URL, parsing fails at the first relative
\* locator line, succeeds when the file has locator lines and all are
\* absolute, and fails with "no segments found" when it has none.
C23_LocalPlaylistOutcome ==
    NoBaseURL =>
        /\ RelativeLines # {} =>
              call.err = [msg |-> "found relative URL but no base URL provided",
                          line |-> Min(RelativeLines)]
        /\ (RelativeLines = {} /\ LocatorsOf(callArgs.lines) # {}) =>
              call.err = NoErr
        /\ LocatorsOf(callArgs.lines) = {} =>
              call.err = [msg |-> "no segments found in playlist"]

\* C23: with no base URL, parsing fails at the first relative locator line.
\* When all locator lines are absolute and the file was read to its end: a
\* media playlist with a locator line gives a playlist with exactly those
\* locators, a master playlist with a locator line gives whatever the
\* download and parsing of its first variant give, and a file with no
\* locator line fails with "no segments found"; when reading the file failed
\* the error is the read error.
C23_LocalPlaylist ==
    NoBaseURL =>
        /\ RelativeLines # {} =>
              call.err = [msg |-> "found relative URL but no base URL provided",
                          line |-> Min(RelativeLines)]
        /\ (RelativeLines = {} /\ callArgs.env.readErr) =>
              call.err = [msg |-> "error reading playlist"]
        /\ (RelativeLines = {} /\ ~callArgs.env.readErr) =>
              /\ LocatorsOf(callArgs.lines) = {} =>
                    call.err = [msg |-> "no segments found in playlist"]
              /\ (LocatorsOf(callArgs.lines) # {} /\ ~IsMaster(callArgs.lines)) =>
                    /\ call.err = NoErr
                    /\ Len(call.playlist.Segments)
                          = Cardinality(LocatorsOf(callArgs.lines))
                    /\ \A k \in 1..Len(call.playlist.Segments) :
                          call.playlist.Segments[k].absolute
              /\ (LocatorsOf(callArgs.lines) # {} /\ IsMaster(callArgs.lines)) =>
                    /\ ~callArgs.env.variant.served =>
                          call.err = [msg |-> "failed to download playlist"]
                    /\ (callArgs.env.variant.served
                           /\ LocatorsOf(callArgs.env.variant.lines) = {}) =>
                          call.err = [msg |-> "no segments found in playlist"]
                    /\ (callArgs.env.variant.served
                           /\ LocatorsOf(callArgs.env.variant.lines) # {}) =>
                          call.err = NoErr

\* C23 witness: a file with an absolute locator line followed by a relative
\* one was parsed with no base URL and rejected at the relative line
C23_Witness ==
    /\ NoBaseURL
    /\ Len(callArgs.lines) >= 2
    /\ callArgs.lines[1] = LocatorLine(TRUE)
    /\ callArgs.lines[2] = LocatorLine(FALSE)
    /\ call.err # NoErr
    /\ call.err.msg = "found relative URL but no base URL provided"

\* ------------------------------------- DownloadSegments under the mutex
\* The goroutines' steps with Downloader.mu followed: checkAndSwitchToDisk
\* and shouldUseDisk lock it on entry and unlock it (deferred) on return, and
\* the progress line is printed between the atomic add and the send.

\* d.mu.Lock() at the head of checkAndSwitchToDisk or of shouldUseDisk
MuLock(i) ==
    /\ pc[i] \in {"check", "mode"}
    /\ mu = NoHolder
    /\ mu' = [holder |-> i,
              fn |-> IF pc[i] = "check" THEN "checkAndSwitchToDisk"
                     ELSE "shouldUseDisk"]
    /\ UNCHANGED <<fnVars, auVars, netVars, stdout, cfgVars, dlVars, taskVars, syncVars,
                   collVars, fsVars, launched, mainPc, mergeErr>>

\* goroutine i is inside method fn, holding the mutex
Locked(i, fn) == mu = [holder |-> i, fn |-> fn]

\* Faulty variant: nothing keeps a goroutine from going on with the mutex held
Unlocked_Unchecked(i) == TRUE

\* goroutine i has returned from the method it locked the mutex in
Unlocked(i) == mu.holder # i

\* the body of checkAndSwitchToDisk, between Lock and the deferred Unlock
LockedCheckAndSwitch(i) ==
    /\ Locked(i, "checkAndSwitchToDisk")
    /\ CheckAndSwitch(i)

\* the body of shouldUseDisk, between Lock and the deferred Unlock
LockedShouldUseDisk(i) ==
    /\ Locked(i, "shouldUseDisk")
    /\ ShouldUseDisk(i)

\* defer d.mu.Unlock(), as the method returns
MuUnlock(i) ==
    /\ \/ Locked(i, "checkAndSwitchToDisk") /\ pc[i] \in {"mode", "sendErr"}
       \/ Locked(i, "shouldUseDisk") /\ pc[i] \in {"writeFile", "storeMem"}
    /\ mu' = NoHolder
    /\ UNCHANGED <<fnVars, auVars, netVars, stdout, cfgVars, dlVars, taskVars, syncVars,
                   collVars, fsVars, launched, mainPc, mergeErr>>

\* os.WriteFile(filepath.Join(d.tempDir, ...)) after shouldUseDisk returned
UnlockedStoreOnDisk(i) == Unlocked(i) /\ StoreOnDisk(i)

\* segmentData.Data = data after shouldUseDisk returned
UnlockedStoreInMemory(i) == Unlocked(i) /\ StoreInMemory(i)

\* The values a read of d.totalSize outside the mutex may give: the field,
\* or, when another goroutine is inside checkAndSwitchToDisk about to add to
\* it, the field after that write (the read races with the write)
RacyTotalSize(i) ==
    {totalSize} \cup
        {totalSize + data[j].len :
            j \in {k \in Indices \ {i} :
                      Locked(k, "checkAndSwitchToDisk") /\ pc[k] = "check"}}

\* fmt.Printf("\rDownloading segments: ... [%s]", ..., formatBytes(d.totalSize))
\* or, after a failed temp-file write, "... - Error on segment %d"; the
\* counts in the line are left out
PrintProgress(i) ==
    /\ pc[i] = "send"
    /\ stdout[i] = Nil
    /\ IF segmentData[i].Error = NoErr
       THEN \E bytes \in RacyTotalSize(i) :
               stdout' = [stdout EXCEPT ![i] = [bytes |-> bytes]]
       ELSE stdout' = [stdout EXCEPT ![i] = [errorOnSegment |-> i]]
    /\ UNCHANGED <<fnVars, auVars, netVars, mu, cfgVars, dlVars, taskVars, syncVars,
                   collVars, fsVars, launched, mainPc, mergeErr>>

\* resultChan <- ..., after the progress line on the success path
PrintedPublish(i) ==
    /\ Unlocked(i)
    /\ pc[i] = "send" => stdout[i] # Nil
    /\ Publish(i)

InitLock ==
    /\ segments \in {[k \in 1..n |-> k - 1] : n \in 1..MaxSegs}
    /\ maxConcurrent = 2
    /\ maxRetries = 0
    /\ playlist = PlainPlaylist
    /\ RunInit
    /\ callNet = <<>>
    /\ callRetries = 0
    /\ callArgs = Nil
    /\ call = NotCalled

NextLock ==
    \/ Launch
    \/ \E i \in Indices : Acquire(i)
    \/ \E i \in Indices : Fetch(i)
    \/ \E i \in Indices : MuLock(i)
    \/ \E i \in Indices : LockedCheckAndSwitch(i)
    \/ \E i \in Indices : LockedShouldUseDisk(i)
    \/ \E i \in Indices : MuUnlock(i)
    \/ \E i \in Indices : UnlockedStoreOnDisk(i)
    \/ \E i \in Indices : UnlockedStoreInMemory(i)
    \/ \E i \in Indices : UpdateProgress(i)
    \/ \E i \in Indices : PrintProgress(i)
    \/ \E i \in Indices : PrintedPublish(i)
    \/ \E i \in Indices : Release(i)
    \/ \E i \in Indices : Done(i)
    \/ CloseResults
    \/ Collect
    \/ Return

SpecLock == InitLock /\ [][NextLock]_vars

\* goroutine i reads d.totalSize for its progress line in this step
PrintsTotalSize(i) ==
    stdout[i] = Nil /\ stdout'[i] # Nil /\ "bytes" \in DOMAIN stdout'[i]
\* another goroutine has been started and has not finished
OthersRunning(i) ==
    \E j \in Indices \ {i} : pc[j] \notin {"unlaunched", "done"}

\* C24: every step in which a goroutine reads or writes totalSize,
\* useDiskStorage or tempDir while another goroutine is running is taken
\* holding the mutex.
C24_AccessUnderMutex ==
    [][\A i \in Indices :
          (/\ OthersRunning(i)
           /\ \/ ChecksSize(i)
              \/ ReadsMode(i)
              \/ StoresOnDisk(i)
              \/ PrintsTotalSize(i)) => mu.holder = i]_vars

\* The reads outside the mutex that C24 misses: the progress line's read of
\* totalSize, taken while another goroutine is inside checkAndSwitchToDisk
C24_RacyRead ==
    \E i, j \in Indices :
        /\ i # j
        /\ pc[i] = "send" /\ stdout[i] = Nil /\ segmentData[i].Error = NoErr
        /\ Locked(j, "checkAndSwitchToDisk") /\ pc[j] = "check"

\* goroutine i takes a step of its own in this step (other than locking
\* or unlocking the mutex)
Steps(i) == pc'[i] # pc[i] \/ stdout'[i] # stdout[i]

\* C25 as stated: no goroutine fetches or writes its temp file holding the
\* mutex, and the mutex is held only inside checkAndSwitchToDisk.
C25_HeldOnlyInCheck ==
    [][\A i \in Indices :
          /\ (Fetches(i) \/ StoresOnDisk(i)) => mu.holder # i
          /\ mu.holder = i => mu.fn = "checkAndSwitchToDisk"]_vars

\* C25: no goroutine fetches or writes its temp file holding the mutex; the
\* only steps a goroutine takes holding it are the size update with the
\* threshold check and directory creation, inside checkAndSwitchToDisk, and
\* the read of the mode, inside shouldUseDisk.
C25_HeldOnlyInCheckAndModeRead ==
    [][\A i \in Indices :
          /\ (Fetches(i) \/ StoresOnDisk(i)) => mu.holder # i
          /\ (mu.holder = i /\ Steps(i)) =>
                \/ mu.fn = "checkAndSwitchToDisk" /\ ChecksSize(i)
                \/ mu.fn = "shouldUseDisk" /\ ReadsMode(i)]_vars

\* C25 witness: a goroutine is about to write its temp file, not holding the
\* mutex, which another goroutine holds
C25_Witness ==
    \E i, j \in Indices :
        /\ i # j
        /\ pc[i] = "writeFile"
        /\ Unlocked(i)
        /\ mu.holder = j

\* ---------------------------------------------------------------------
\* goroutine i gives its slot back / adds to the progress counter in this step
Releases(i) == pc[i] = "release" /\ pc'[i] # "release"
Counts(i) == pc[i] \in {"progress", "progressErr"} /\ pc'[i] # pc[i]
\* goroutine i's record has been sent: it is in the channel or was collected
Sent(i) ==
    \/ \E k \in 1..Len(resultChan) : resultChan[k].Index = i
    \/ results[i + 1].Index = i /\ results[i + 1] # ZeroSegmentData
    \/ \E k \in 1..Len(errors) : errors[k].index = i
\* the goroutines that have added to the progress counter
Counted == {i \in Indices : pc[i] \in {"send", "release", "wgDone", "done"}}

\* C26 as stated: a goroutine has given its slot back before it sends its
\* record and before it adds to the progress counter.
C26_ReleaseBeforePublish ==
    [][\A i \in Indices :
          (Publishes(i) \/ Counts(i)) => semaphore < Cardinality(Holding)]_vars

\* C26: a goroutine keeps its slot while it sends its record and adds to the
\* progress counter; it gives the slot back only afterwards, as its last
\* step but one (before wg.Done), and no other step changes the semaphore
\* than taking a slot before the fetch.
C26_ReleaseAfterPublish ==
    [][\A i \in Indices :
          /\ (Publishes(i) \/ Counts(i)) =>
                /\ i \in Holding
                /\ semaphore = Cardinality(Holding)
                /\ semaphore' = semaphore
          /\ Releases(i) =>
                /\ Sent(i)
                /\ i \in Counted
                /\ semaphore' = semaphore - 1
                /\ pc'[i] = "wgDone"]_vars

\* C26 witness: a goroutine has given its slot back, its record sent and
\* counted, while another goroutine still holds a slot
C26_Witness ==
    \E i, j \in Indices :
        /\ pc[i] = "wgDone"
        /\ Sent(i)
        /\ j \in Holding
        /\ semaphore = 1

\* C27: the progress counter is the number of goroutines that have passed
\* their increment (one on every path), so it is at most N and is N once
\* DownloadSegments has returned; and no step decreases it.
C27_ProgressCounts ==
    /\ [](/\ progress = Cardinality(Counted)
          /\ progress <= N
          /\ Returned => progress = N)
    /\ [][/\ progress' >= progress
          /\ \A i \in Indices :
                Counts(i) <=> (progress' = progress + 1 /\ pc'[i] # pc[i])]_vars

\* C27 witness: DownloadSegments has returned from a run of two segments, one
\* failed and one stored, and the counter is 2
C27_Witness ==
    /\ Returned
    /\ N = 2
    /\ progress = 2
    /\ \E i, j \in Indices : HasError(segmentData[i]) /\ ~HasError(segmentData[j])

\* ---------------------------------------------------------------------
\* the sum of f over the set S
RECURSIVE SumOver(_, _)
SumOver(S, f) ==
    IF S = {} THEN 0
    ELSE LET x == CHOOSE y \in S : TRUE IN f[x] + SumOver(S \ {x}, f)
\* the length of each goroutine's data (0: none)
DataLen == [i \in Indices |-> IF data[i] = Nil THEN 0 ELSE data[i].len]
\* the goroutines whose record is memory-backed, or about to be
MemoryBacked == {i \in Indices : HasData(segmentData[i]) \/ pc[i] = "storeMem"}

\* C29: the sizes of the memory-backed records add up to at most the
\* threshold; and a segment whose size update left the total above the
\* threshold is never kept in memory: its check fails or leaves the mode
\* Disk, the mode never goes back, and a goroutine that reads Disk writes a
\* temp file.
C29_MemoryBounded ==
    /\ [](/\ SumOver(MemoryBacked, DataLen) <= MemoryThreshold
          /\ \A i \in MemoryBacked : segmentData[i].FilePath = NoPath)
    /\ [][/\ \A i \in Indices :
                /\ (ChecksSize(i) /\ totalSize' > MemoryThreshold) =>
                      (pc'[i] = "sendErr" \/ useDiskStorage')
                /\ (ReadsMode(i) /\ useDiskStorage) => pc'[i] = "writeFile"
                /\ StoresInMemory(i) =>
                      /\ segmentData'[i].Data = data[i]
                      /\ data[i].len <= MemoryThreshold
          /\ useDiskStorage => useDiskStorage']_vars

\* C29 witness: a record of threshold size is memory-backed while the other
\* segment, which took the total over the threshold, went to disk
C29_Witness ==
    \E i, j \in Indices :
        /\ HasData(segmentData[i])
        /\ segmentData[i].Data.len = MemoryThreshold
        /\ HasFile(segmentData[j])
        /\ totalSize > MemoryThreshold

\* the goroutines whose segment has been added to the total: those past
\* checkAndSwitchToDisk, which only fetched and decrypted segments reach
PastCheck ==
    {i \in Indices :
        /\ pc[i] \notin {"unlaunched", "acquire", "fetch", "decrypt", "check"}
        /\ data[i] # Nil}

MediaDownloaded ==
    \/ mainPc = "returned" /\ ret.err = NoErr /\ ~HasAudioTrack
    \/ mainPc = "audioReturned" /\ audioRet.err = NoErr
    \/ mainPc \in {"merged", "audioMerged", "exit"}

\* C28 as stated: for a fragmented stream with an initialization segment, a
\* request for it has been made by the time the media segments have been
\* downloaded, and before the destination exists.
C28_InitFetchedWithMedia ==
    (playlist.IsFragmented /\ playlist.InitSegment # "") =>
        /\ MediaDownloaded => initRequests > 0
        /\ output.exists => initRequests > 0

\* C28: no request for an initialization segment is made before the media
\* segments of every track have been downloaded; the requests are made in
\* the merge steps only, for a fragmented stream, and only once the merge
\* has created its destination (if creating it fails, none is made).
C28_InitFetchedInMerge ==
    /\ [](initRequests > 0 =>
             /\ playlist.IsFragmented
             /\ mainPc \in {"merged", "audioMerged", "exit"})
    /\ [][initRequests' # initRequests =>
             /\ MediaDownloaded
             /\ initRequests' > initRequests
             /\ \/ mainPc' = "merged" /\ ~output.exists /\ output'.exists
                \/ mainPc' = "audioMerged" /\ ~audioOutput.exists
                      /\ audioOutput'.exists]_vars

\* C28 witness: the video track of a fragmented stream was merged, its
\* initialization segment first, and one request was made for it
C28_Witness ==
    /\ mainPc = "merged"
    /\ playlist.IsFragmented
    /\ mergeErr = NoErr
    /\ initRequests = 1
    /\ output.exists
    /\ output.content[1] = InitChunk(playlist.InitSegment)

\* ---------------------------------------------------------------------
\* the number of records of goroutine i in the channel / taken from it
InChannel(i) == Cardinality({k \in 1..Len(resultChan) : resultChan[k].Index = i})
Received(i) ==
    (IF results[i + 1] # ZeroSegmentData THEN 1 ELSE 0)
        + Cardinality({k \in 1..Len(errors) : errors[k].index = i})
\* the goroutines that are past their send
PastSend == {i \in Indices : pc[i] \in {"progressErr", "release", "wgDone", "done"}}
\* the number of records the collector has taken from the channel
ReceivedCount == Len(errors) + Cardinality({k \in 1..N : results[k] # ZeroSegmentData})

\* C31 as stated: the channel never holds more than N records, a goroutine
\* at its send can always send, and by the time the channel is closed the
\* collector has received N records.
C31_AllReceivedBeforeClose ==
    /\ Len(resultChan) <= N
    /\ \A i \in Indices : pc[i] \in {"send", "sendErr"} => Len(resultChan) < N
    /\ closed => ReceivedCount = N

\* C31: each goroutine has sent exactly one record once it is past its send
\* and none before; the channel never holds more than N records and a
\* goroutine at its send can always send; when the channel is closed all N
\* records have been sent, and when DownloadSegments has returned the
\* collector has received exactly N records (those still in the channel at
\* the close are received after it).
C31_OneRecordEach ==
    /\ Len(resultChan) <= N
    /\ \A i \in Indices :
          /\ InChannel(i) + Received(i) = IF i \in PastSend THEN 1 ELSE 0
          /\ pc[i] \in {"send", "sendErr"} => Len(resultChan) < N
    /\ closed => /\ PastSend = Indices
                 /\ Len(resultChan) + ReceivedCount = N
    /\ Returned => ReceivedCount = N /\ resultChan = <<>>

\* C31 witness: the channel was closed holding both records of a run of two
\* segments, none received yet
C31_Witness ==
    /\ N = 2
    /\ closed
    /\ Len(resultChan) = 2
    /\ ReceivedCount = 0

\* ------------------------------------------------- DownloadSegments, fair
\* DownloadSegments under the mutex with a concurrency limit of at least 1.
\* The Go scheduler runs some goroutine that can take a step, and each fetch
\* attempt ends (Fetch is one step): as long as a step is possible one is
\* taken.
InitLive ==
    /\ segments \in {[k \in 1..n |-> k - 1] : n \in 1..MaxSegs}
    /\ maxConcurrent \in {1, 2}
    /\ maxRetries \in RetryLimits
    /\ playlist = PlainPlaylist
    /\ RunInit
    /\ callNet = <<>>
    /\ callRetries = 0
    /\ callArgs = Nil
    /\ call = NotCalled

SpecLive == InitLive /\ [][NextLock]_vars /\ WF_vars(NextLock)

\* C32: with a concurrency limit of at least 1, as long as DownloadSegments
\* has not returned some step is possible (nothing deadlocks on the
\* semaphore, the mutex or the result channel), and eventually it returns,
\* every goroutine finished, every slot given back, the mutex free and the
\* channel empty and closed.
C32_EventuallyReturns ==
    /\ [](mainPc # "returned" => ENABLED NextLock)
    /\ <>(/\ mainPc = "returned"
          /\ \A i \in Indices : pc[i] = "done"
          /\ semaphore = 0
          /\ mu = NoHolder
          /\ closed
          /\ resultChan = <<>>)

\* C32 witness: a run of two segments with a single slot has returned
C32_Witness ==
    /\ N = 2
    /\ maxConcurrent = 1
    /\ mainPc = "returned"
    /\ \A i \in Indices : pc[i] = "done"

\* ---------------------------------------------------------------------
\* C33: with a concurrency limit of 0 (an unbuffered semaphore channel that
\* nobody receives from) no goroutine gets past its send on the semaphore:
\* no slot is taken, no fetch made, no record sent or received, the channel
\* is never closed and DownloadSegments never returns.
C33_ZeroLimitBlocks ==
    (maxConcurrent = 0 /\ N >= 1) =>
        /\ \A i \in Indices :
              /\ pc[i] \in {"unlaunched", "acquire"}
              /\ data[i] = Nil
              /\ segmentData[i] = ZeroSegmentData
        /\ semaphore = 0
        /\ progress = 0
        /\ totalSize = 0
        /\ resultChan = <<>>
        /\ ReceivedCount = 0
        /\ ~closed
        /\ wg = launched
        /\ mainPc \in {"launch", "collect"}
        /\ ret = [records |-> <<>>, err |-> NoErr]

\* C33 witness: with a limit of 0 both goroutines of a run of two segments
\* wait at the semaphore and DownloadSegments waits at its channel
C33_Witness ==
    /\ maxConcurrent = 0
    /\ N = 2
    /\ mainPc = "collect"
    /\ \A i \in Indices : pc[i] = "acquire"
    /\ ~ENABLED Next

\* ---------------------------------------------------------------------
\* the temp directory was created and has been removed
TempDirRemoved == tempDir # NoDir /\ tempDir \notin dirs

\* C34: the temp directory is removed only once every goroutine has
\* finished and the channel is closed and empty: a goroutine that is about
\* to write its segment file finds the directory in place, and after the
\* removal nothing is in the directory.
C34_RemovedAfterAllDone ==
    /\ \A i \in Indices : pc[i] = "writeFile" => tempDir \in dirs
    /\ TempDirRemoved =>
          /\ \A i \in Indices : pc[i] = "done"
          /\ closed /\ resultChan = <<>>
          /\ Returned
          /\ \A path \in DOMAIN files : path.dir # tempDir

\* C34 witness: DownloadSegments failed after a goroutine had written its
\* segment file, and the directory is gone
C34_Witness ==
    /\ mainPc = "returned"
    /\ ret.err # NoErr
    /\ TempDirRemoved
    /\ \E i \in Indices : HasFile(segmentData[i])

\* ---------------------------------------------------------------------
\* the length of a key as DecryptSegment is given it (nil: 0)
KeyLen(key) == IF key = Nil THEN 0 ELSE key.len
\* the key server serves a key parseKeyTag accepts
KeyServed ==
    /\ Succeeds(callArgs.env.keyResp)
    /\ callArgs.env.keyResp.body.len = 16
\* the AES-128 KEY tags of the deciding lines whose key is / is not acquired
\* (no custom key given)
AcquiringTags ==
    {k \in 1..Len(DecidingLines) :
        /\ DecidingLines[k].tag = "KEY"
        /\ DecidingLines[k].method = "AES-128"
        /\ DecidingLines[k].uri /\ KeyServed}
FailingTags ==
    {k \in 1..Len(DecidingLines) :
        /\ DecidingLines[k].tag = "KEY"
        /\ DecidingLines[k].method = "AES-128"
        /\ ~(DecidingLines[k].uri /\ KeyServed)}
\* DecryptSegment fails on every segment with the playlist's key
NoSegmentDecrypts(pl) ==
    \A n \in DataLengths, i \in 0..(MaxSegs - 1) :
        DecryptSegment(Chunk(i, n), KeyLen(pl.Key), pl.KeyIV, i).err
            = [msg |-> "failed to create cipher"]
\* a playlist marked encrypted was parsed with no custom key
ParsedEncrypted ==
    /\ call.called
    /\ call.err = NoErr
    /\ callArgs.customKey = Nil
    /\ call.playlist.Encrypted

EncryptedPayloadsDecrypted ==
    playlist.Encrypted =>
        /\ \A i \in Indices :
              /\ HasData(segmentData[i]) => segmentData[i].Data.form = "plain"
              /\ HasFile(segmentData[i]) =>
                    (segmentData[i].FilePath \in DOMAIN files
                        => files[segmentData[i].FilePath].form = "plain")
              /\ playlist.Key = 0 =>
                    ~HasData(segmentData[i]) /\ ~HasFile(segmentData[i])
        /\ playlist.Key = 0 =>
              /\ DOMAIN files = {}
              /\ totalSize = 0
              /\ Returned => (ret.err # NoErr /\ ret.records = <<>>)
              /\ ~output.exists

\* ---------------------------------------------------------------------
\* the audio run has been started
AudioStarted == audioDownloader # Nil
\* the records of a run that are memory-backed
InMemory(records) == {k \in 1..Len(records) : HasData(records[k])}

\* C36: the audio run is started only when the video run has returned
\* without error, and it leaves the video downloader's mode, temp directory,
\* byte count and records as they were; the audio downloader has a temp
\* directory of its own, and its records are in memory or on disk whatever
\* the video run's were.
C36_TracksInSequence ==
    /\ [](/\ AudioStarted =>
                /\ mainPc \notin {"launch", "returned"}
                /\ ret.err = NoErr
                /\ HasAudioTrack
                /\ audioDownloader.tempDir # NoDir =>
                      audioDownloader.tempDir # tempDir
                /\ \A k \in 1..Len(audioRet.records) :
                      HasFile(audioRet.records[k]) =>
                         audioRet.records[k].FilePath.dir = audioDownloader.tempDir
          /\ ~AudioStarted => audioRet = [records |-> <<>>, err |-> NoErr]
          /\ \A k \in 1..Len(ret.records) :
                HasFile(ret.records[k]) => ret.records[k].FilePath.dir = tempDir)
    /\ [][(~AudioStarted /\ AudioStarted') =>
             /\ mainPc = "returned" /\ mainPc' = "audioReturned"
             /\ UNCHANGED <<ret, tempDir, useDiskStorage, totalSize, progress>>
             /\ \A path \in DOMAIN files : path \in DOMAIN files'
                                            /\ files'[path] = files[path]]_vars

\* C36 witness: after both runs the video records are all in memory, with no
\* video temp directory, while the audio run went to disk
C36_Witness ==
    /\ mainPc = "audioReturned"
    /\ audioRet.err = NoErr
    /\ Len(ret.records) = 2
    /\ InMemory(ret.records) = {1, 2}
    /\ tempDir = NoDir
    /\ audioDownloader.tempDir = AudioTempDirName
    /\ InMemory(audioRet.records) = {}

\* ---------------------------------------------------------------------
\* C37: no step changes the playlist main parsed, which the video downloader
\* keeps; the audio merge gives the audio downloader a copy whose init
\* locator is the audio one; a video merge that succeeded starts with the
\* video init segment and an audio merge that succeeded with the audio one.
C37_VideoPlaylistUnchanged ==
    /\ [](/\ mainPc = "audioMerged" =>
                /\ audioDownloader.playlist
                      = [playlist EXCEPT !.InitSegment = playlist.AudioInit]
                /\ mergeErr = NoErr =>
                      audioOutput.content[1] = InitChunk(playlist.AudioInit)
          /\ (mainPc \in {"merged", "audioMerged"} /\ playlist.IsFragmented
                 /\ output.exists /\ output.content # <<>>) =>
                output.content[1] = InitChunk(playlist.InitSegment)
          /\ (AudioStarted /\ mainPc \in {"audioReturned", "merged"}) =>
                audioDownloader.playlist = playlist)
    /\ [][playlist' = playlist]_vars

\* C37 witness: both tracks of a fragmented stream were merged, each with its
\* own initialization segment, and the playlist still names the video one
C37_Witness ==
    /\ mainPc = "audioMerged"
    /\ mergeErr = NoErr
    /\ playlist.InitSegment = "init.mp4"
    /\ playlist.AudioInit = "audio_init.mp4"
    /\ output.content[1] = InitChunk("init.mp4")
    /\ audioOutput.content[1] = InitChunk("audio_init.mp4")

\* ------------------------------------- DownloadSegments, one at a time
\* DownloadSegments with a concurrency limit of 1 over up to MaxSegs + 1
\* segments, so that a segment can follow the one whose size update crossed
\* the threshold while others are in memory.
InitSerial ==
    /\ segments \in {[k \in 1..n |-> k - 1] : n \in 1..(MaxSegs + 1)}
    /\ maxConcurrent = 1
    /\ maxRetries = 0
    /\ playlist = PlainPlaylist
    /\ RunInit
    /\ callNet = <<>>
    /\ callRetries = 0
    /\ callArgs = Nil
    /\ call = NotCalled

NextSerial ==
    \/ Launch
    \/ \E i \in Indices : Acquire(i)
    \/ \E i \in Indices : Fetch(i)
    \/ \E i \in Indices : CheckAndSwitch(i)
    \/ \E i \in Indices : ShouldUseDisk(i)
    \/ \E i \in Indices : StoreOnDisk(i)
    \/ \E i \in Indices : StoreInMemory(i)
    \/ \E i \in Indices : UpdateProgress(i)
    \/ \E i \in Indices : Publish(i)
    \/ \E i \in Indices : Release(i)
    \/ \E i \in Indices : Done(i)
    \/ CloseResults
    \/ Collect
    \/ Return

SpecSerial == InitSerial /\ [][NextSerial]_vars

\* the size check of goroutine i failed
StorageCheckFailed(i) ==
    HasError(segmentData[i]) /\ segmentData[i].Error.msg = "storage check failed"

\* C38: a size update that crosses the threshold, or finds it crossed with
\* the mode still Memory, attempts to create the directory: it either
\* switches the mode to Disk with the directory recorded and made, or fails.
\* When it fails the goroutine's record is the failure, the mode stays
\* Memory with no directory recorded, the total includes the segment's
\* size, and the record is sent like any other.
C38_MkdirFailure ==
    /\ [](\A i \in Indices :
             (StorageCheckFailed(i) /\ i \in PastSend) =>
                 InChannel(i) + Received(i) = 1)
    /\ [][\A i \in Indices :
             (ChecksSize(i) /\ ~useDiskStorage
                 /\ totalSize + data[i].len > MemoryThreshold) =>
                /\ totalSize' = totalSize + data[i].len
                /\ \/ /\ pc'[i] = "mode"
                      /\ useDiskStorage'
                      /\ tempDir' = TempDirName
                      /\ tempDir' \in dirs'
                   \/ /\ pc'[i] = "sendErr"
                      /\ segmentData'[i] =
                            ErrorRecord(i, [msg |-> "storage check failed",
                                            cause |-> [msg |-> "failed to create temp directory"]])
                      /\ ~useDiskStorage'
                      /\ tempDir' = NoDir
                      /\ dirs' = dirs]_vars

\* C38 witness: the directory could not be made for the segment that
\* crossed the threshold, and the next segment's size update made it and
\* went to disk
C38_Witness ==
    \E i, j \in Indices :
        /\ StorageCheckFailed(i)
        /\ pc[i] = "done"
        /\ pc[j] = "writeFile"
        /\ useDiskStorage
        /\ tempDir \in dirs

\* ---------------------------------------------------------------------
\* the error DownloadContentWithRetry returns when its loop never ran
NoAttemptError == [msg |-> "failed after retries", retries |-> maxRetries,
                   cause |-> NoErr]

\* C39: with a negative maxRetries DownloadContentWithRetry makes no request
\* and returns an error that wraps no cause; every goroutine's fetch ends
\* with that error as its record, no data are kept or counted, and
\* DownloadSegments returns an error.
C39_NegativeRetries ==
    /\ [](maxRetries < 0 =>
             /\ DownloadContentWithRetry(<<>>, maxRetries) =
                   [data |-> Nil, err |-> NoAttemptError,
                    attempts |-> 0, slept |-> <<>>]
             /\ \A i \in Indices :
                   /\ data[i] = Nil
                   /\ segmentData[i] \in {ZeroSegmentData, ErrorRecord(i, NoAttemptError)}
                   /\ pc[i] \notin {"unlaunched", "acquire", "fetch"} =>
                         segmentData[i] = ErrorRecord(i, NoAttemptError)
             /\ totalSize = 0
             /\ ~useDiskStorage
             /\ files = [f \in DOMAIN files |-> NoFile]
             /\ (Returned /\ N >= 1) => (ret.err # NoErr /\ ret.records = <<>>))
    /\ [][\A i \in Indices :
             (Fetches(i) /\ maxRetries < 0) =>
                 /\ pc'[i] = "sendErr"
                 /\ segmentData'[i] = ErrorRecord(i, NoAttemptError)]_vars

\* C39 witness: a run of two segments with maxRetries = -1 has returned
\* with both records carrying the error without cause
C39_Witness ==
    /\ maxRetries = -1
    /\ N = 2
    /\ Returned
    /\ ret.err # NoErr
    /\ \A i \in Indices : segmentData[i] = ErrorRecord(i, NoAttemptError)

====
